---- MODULE Spec2Model ----
(***************************************************************************)
(* A model of the financial-data pipeline of utilities.py:                 *)
(*   detect_excel_structure, analyze_excel_data, classify_transactions,    *)
(*   generate_ai_insights and generate_financial_predictions.              *)
(*                                                                         *)
(* Text whose content the code inspects (column headers, descriptions,     *)
(* keywords) is a sequence of characters.  An ASCII character is the       *)
(* one-character string; a non-ASCII character is written "uXXXX", its     *)
(* code point, as the module's strings are ASCII.                          *)
(***************************************************************************)
EXTENDS Integers, Sequences, FiniteSets, TLC

VARIABLES
  columns,          \* detect: df.columns, the headers in file order
  column_mapping,   \* detect: the dict being built
  col_idx,          \* detect: position of the for loop over df.columns
  detect_pc,        \* detect: "loop" | "done"
  df,               \* normalize: the raw frame handed to analyze_excel_data
  mapping_in,       \* normalize: the column mapping handed to it
  processed_data,   \* normalize: the frame it returned
  reprocessed,      \* normalize: the frame returned for processed_data fed back
  current_date,     \* normalize: datetime.now() at the latest call
  processed_again,  \* normalize: the frame a second call on df returned
  norm_pc,          \* normalize: "loaded" | "analyzed" | "reanalyzed" | "repeated"
  cls_row,          \* classify: the row handed to classify_transactions
  label,            \* classify: the label it returned
  cls_pc,           \* classify: "call" | "done"
  sum_data,         \* summarize: the frame handed to generate_ai_insights
  analysis_results, \* summarize: the dict it returned
  sum_pc,           \* summarize: "call" | "done"
  pred_data,        \* predict: the frame handed to generate_financial_predictions
  months_ahead,     \* predict: its second argument
  last_date,        \* predict: the latest monthly bucket
  avg_income,       \* predict: mean of the monthly income totals
  avg_expenses,     \* predict: mean of the monthly expense totals
  pred_i,           \* predict: the loop variable i
  monthly_data,     \* predict: the list of predictions being built
  predictions,      \* predict: the dict returned
  pred_pc,          \* predict: "call" | "loop" | "except" | "summary" | "done"
  session_state     \* dashboard: st.session_state, a record of its keys

detectVars == <<columns, column_mapping, col_idx, detect_pc>>
normVars == <<df, mapping_in, processed_data, reprocessed, current_date,
              processed_again, norm_pc>>
clsVars == <<cls_row, label, cls_pc>>
sumVars == <<sum_data, analysis_results, sum_pc>>
predVars == <<pred_data, months_ahead, last_date, avg_income, avg_expenses,
              pred_i, monthly_data, predictions, pred_pc>>
sessionVars == <<session_state>>
vars == <<detectVars, normVars, clsVars, sumVars, predVars, sessionVars>>

(***************************************************************************)
(* Bounds of the model.                                                    *)
(***************************************************************************)
MaxCols == 3
MaxRows == 2
MaxMonthsAhead == 3

(***************************************************************************)
(* Text helpers: str.lower(), the `in` substring test, any(...).           *)
(***************************************************************************)
Range(s) == { s[i] : i \in DOMAIN s }

UpperToLower ==
  [ c \in {"A","B","C","D","E","F","G","H","I","J","K","L","M",
           "N","O","P","Q","R","S","T","U","V","W","X","Y","Z"} |->
    CASE c = "A" -> "a" [] c = "B" -> "b" [] c = "C" -> "c" [] c = "D" -> "d"
      [] c = "E" -> "e" [] c = "F" -> "f" [] c = "G" -> "g" [] c = "H" -> "h"
      [] c = "I" -> "i" [] c = "J" -> "j" [] c = "K" -> "k" [] c = "L" -> "l"
      [] c = "M" -> "m" [] c = "N" -> "n" [] c = "O" -> "o" [] c = "P" -> "p"
      [] c = "Q" -> "q" [] c = "R" -> "r" [] c = "S" -> "s" [] c = "T" -> "t"
      [] c = "U" -> "u" [] c = "V" -> "v" [] c = "W" -> "w" [] c = "X" -> "x"
      [] c = "Y" -> "y" [] c = "Z" -> "z" ]

LowerChar(c) == IF c \in DOMAIN UpperToLower THEN UpperToLower[c] ELSE c

\* s.lower()
Lower(s) == [ i \in 1..Len(s) |-> LowerChar(s[i]) ]

\* k in s  (substring)
Contains(s, k) ==
  \E i \in 0..(Len(s) - Len(k)) : \A j \in 1..Len(k) : s[i + j] = k[j]

\* any(k.lower() in s for k in keywords)
AnyKeywordIn(keywords, s) ==
  \E n \in DOMAIN keywords : Contains(s, Lower(keywords[n]))

(***************************************************************************)
(* detect_excel_structure: the candidate names of each canonical field.    *)
(***************************************************************************)
Fields == {"Date", "Description", "Category", "Income", "Expenses"}

date_columns ==
  << <<"D","a","t","e">>,
     <<"T","r","a","n","s","a","c","t","i","o","n"," ","D","a","t","e">>,
     <<"u062A","u0627","u0631","u064A","u062E">>,
     <<"u062A","u0627","u0631","u064A","u062E"," ","u0627","u0644","u0645","u0639","u0627","u0645","u0644","u0629">>,
     <<"u0627","u0644","u062A","u0627","u0631","u064A","u062E">>,
     <<"d","a","t","e">>,
     <<"d","a","t","e","t","i","m","e">>,
     <<"t","i","m","e">> >>

description_columns ==
  << <<"D","e","s","c","r","i","p","t","i","o","n">>,
     <<"T","r","a","n","s","a","c","t","i","o","n"," ","D","e","t","a","i","l","s">>,
     <<"u0648","u0635","u0641">>,
     <<"u062A","u0641","u0627","u0635","u064A","u0644"," ","u0627","u0644","u0645","u0639","u0627","u0645","u0644","u0629">>,
     <<"u0627","u0644","u0648","u0635","u0641">>,
     <<"u0627","u0644","u0628","u064A","u0627","u0646">>,
     <<"u0627","u0644","u062A","u0641","u0627","u0635","u064A","u0644">>,
     <<"d","e","s","c">>,
     <<"d","e","t","a","i","l","s">> >>

category_columns ==
  << <<"C","a","t","e","g","o","r","y">>,
     <<"T","y","p","e">>,
     <<"u0641","u0626","u0629">>,
     <<"u062A","u0635","u0646","u064A","u0641">>,
     <<"u0646","u0648","u0639">>,
     <<"c","a","t">>,
     <<"g","r","o","u","p">>,
     <<"u0645","u062C","u0645","u0648","u0639","u0629">>,
     <<"u0627","u0644","u0646","u0648","u0639">> >>

income_columns ==
  << <<"I","n","c","o","m","e">>,
     <<"C","r","e","d","i","t">>,
     <<"u062F","u062E","u0644">>,
     <<"u0625","u064A","u0631","u0627","u062F","u0627","u062A">>,
     <<"u0627","u064A","u0631","u0627","u062F","u0627","u062A">>,
     <<"u0645","u062F","u064A","u0646">>,
     <<"c","r","e","d","i","t">>,
     <<"i","n">>,
     <<"r","e","v","e","n","u","e">>,
     <<"u062F","u0627","u0626","u0646">>,
     <<"u062F","u062E","u0644">> >>

expense_columns ==
  << <<"E","x","p","e","n","s","e">>,
     <<"E","x","p","e","n","s","e","s">>,
     <<"D","e","b","i","t">>,
     <<"u0645","u0635","u0631","u0648","u0641","u0627","u062A">>,
     <<"u0645","u0635","u0627","u0631","u064A","u0641">>,
     <<"u062F","u0627","u0626","u0646">>,
     <<"d","e","b","i","t">>,
     <<"o","u","t">>,
     <<"u0645","u0635","u0631","u0641">>,
     <<"u0645","u0635","u0631","u0648","u0641">>,
     <<"u062E","u0635","u0645">> >>

(***************************************************************************)
(* The headers an uploaded sheet may carry.  pandas.read_excel hands out   *)
(* distinct column labels (a repeated header is renamed "X.1"), so a       *)
(* header list holds no label twice.                                       *)
(***************************************************************************)
HeaderPool ==
  { <<"D","a","t","e">>,
    <<"I","n","c","o","m","e"," ","D","a","t","e">>,
    <<"D","e","s","c","r","i","p","t","i","o","n">>,
    <<"T","y","p","e">>,
    <<"I","n","c","o","m","e">>,
    <<"E","x","p","e","n","s","e","s">>,
    <<"N","o","t","e","s">>,
    <<"u062F","u0627","u0626","u0646">>,
    <<"D","e","b","i","t"," ","T","y","p","e">> }

RECURSIVE SeqsUpTo(_, _)
\* the sequences over S of length at most n without a repeated element
SeqsUpTo(S, n) ==
  IF n = 0 THEN { <<>> }
  ELSE LET shorter == SeqsUpTo(S, n - 1)
       IN  shorter \cup { Append(s, x) : s \in { t \in shorter : Len(t) = n - 1 },
                                         x \in S }

DistinctSeqs(S, n) ==
  { s \in SeqsUpTo(S, n) : \A i, j \in DOMAIN s : i # j => s[i] # s[j] }

\* one iteration of `for col in df.columns`, with independent ifs in place of
\* the if/elif chain
DetectColumnIndependentIfs(mapping, col) ==
  LET col_str == Lower(col)
      m1 == IF AnyKeywordIn(date_columns, col_str) /\ "Date" \notin DOMAIN mapping
            THEN mapping @@ ("Date" :> col) ELSE mapping
      m2 == IF AnyKeywordIn(description_columns, col_str) /\ "Description" \notin DOMAIN m1
            THEN m1 @@ ("Description" :> col) ELSE m1
      m3 == IF AnyKeywordIn(category_columns, col_str) /\ "Category" \notin DOMAIN m2
            THEN m2 @@ ("Category" :> col) ELSE m2
      m4 == IF AnyKeywordIn(income_columns, col_str) /\ "Income" \notin DOMAIN m3
            THEN m3 @@ ("Income" :> col) ELSE m3
  IN  IF AnyKeywordIn(expense_columns, col_str) /\ "Expenses" \notin DOMAIN m4
      THEN m4 @@ ("Expenses" :> col) ELSE m4

\* one iteration of `for col in df.columns`, the test for a free field nested
\* inside the keyword test: a header whose first matching field is taken is
\* not offered to the next field
DetectColumnNoFallThrough(mapping, col) ==
  LET col_str == Lower(col)
      assign(f) == IF f \in DOMAIN mapping THEN mapping ELSE mapping @@ (f :> col)
  IN  IF AnyKeywordIn(date_columns, col_str) THEN assign("Date")
      ELSE IF AnyKeywordIn(description_columns, col_str) THEN assign("Description")
      ELSE IF AnyKeywordIn(category_columns, col_str) THEN assign("Category")
      ELSE IF AnyKeywordIn(income_columns, col_str) THEN assign("Income")
      ELSE IF AnyKeywordIn(expense_columns, col_str) THEN assign("Expenses")
      ELSE mapping

\* one iteration of `for col in df.columns`: the if/elif chain
DetectColumn(mapping, col) ==
  LET col_str == Lower(col)
  IN  IF AnyKeywordIn(date_columns, col_str) /\ "Date" \notin DOMAIN mapping
        THEN mapping @@ ("Date" :> col)
      ELSE IF AnyKeywordIn(description_columns, col_str) /\ "Description" \notin DOMAIN mapping
        THEN mapping @@ ("Description" :> col)
      ELSE IF AnyKeywordIn(category_columns, col_str) /\ "Category" \notin DOMAIN mapping
        THEN mapping @@ ("Category" :> col)
      ELSE IF AnyKeywordIn(income_columns, col_str) /\ "Income" \notin DOMAIN mapping
        THEN mapping @@ ("Income" :> col)
      ELSE IF AnyKeywordIn(expense_columns, col_str) /\ "Expenses" \notin DOMAIN mapping
        THEN mapping @@ ("Expenses" :> col)
      ELSE mapping

\* column_mapping = {}
EmptyMapping == [ f \in {} |-> <<>> ]

RECURSIVE DetectColumns(_, _)
\* the for loop over the headers cols, started with the mapping given
DetectColumns(mapping, cols) ==
  IF Len(cols) = 0 THEN mapping
  ELSE DetectColumns(DetectColumn(mapping, Head(cols)), Tail(cols))

\* the whole function, for the headers of a frame
detect_excel_structure(cols) == DetectColumns(EmptyMapping, cols)

(***************************************************************************)
(* Cell values.  A raw cell is untyped: a number, a text, a timestamp or   *)
(* the missing value (NaN, which is what read_excel stores for an empty    *)
(* cell).  Text the code only compares whole (a category) is a string;     *)
(* text it searches or parses is a sequence of characters.                 *)
(***************************************************************************)
NaN == [tag |-> "nan"]
Num(v) == [tag |-> "num", v |-> v]
Text(s) == [tag |-> "text", s |-> s]
Timestamp(y, m, d) == [tag |-> "date", y |-> y, m |-> m, d |-> d]

\* pd.notna(x)
NotNa(x) == x.tag \notin {"nan", "nat"}

(***************************************************************************)
(* classify_transactions                                                   *)
(*                                                                         *)
(* The category labels are Arabic text in the source; the model names them *)
(* in English, in the order of the source's dict:                          *)
(*   Salaries, Donations, Investments, Sales, then the five labels that    *)
(*   start with the word for "expenses" (Operating, Administrative,        *)
(*   Marketing, Personnel, Financial Expenses), then Purchases, Travel.    *)
(***************************************************************************)
category_keywords ==
  <<
     [ category |-> "Salaries",
       keywords |-> << <<"u0631","u0627","u062A","u0628">>,
                     <<"u0645","u0639","u0627","u0634">>,
                     <<"u0623","u062C","u0631">>,
                     <<"s","a","l","a","r","y">>,
                     <<"w","a","g","e">>,
                     <<"p","a","y","r","o","l","l">> >> ],
     [ category |-> "Donations",
       keywords |-> << <<"u062A","u0628","u0631","u0639">>,
                     <<"u0647","u0628","u0629">>,
                     <<"u062F","u0639","u0645">>,
                     <<"d","o","n","a","t","i","o","n">>,
                     <<"g","r","a","n","t">>,
                     <<"s","u","p","p","o","r","t">> >> ],
     [ category |-> "Investments",
       keywords |-> << <<"u0623","u0631","u0628","u0627","u062D">>,
                     <<"u0627","u0633","u062A","u062B","u0645","u0627","u0631">>,
                     <<"u0639","u0627","u0626","u062F">>,
                     <<"d","i","v","i","d","e","n","d">>,
                     <<"i","n","v","e","s","t","m","e","n","t">>,
                     <<"r","e","t","u","r","n">> >> ],
     [ category |-> "Sales",
       keywords |-> << <<"u0645","u0628","u064A","u0639","u0627","u062A">>,
                     <<"u0628","u064A","u0639">>,
                     <<"u0625","u064A","u0631","u0627","u062F">>,
                     <<"s","a","l","e","s">>,
                     <<"r","e","v","e","n","u","e">>,
                     <<"i","n","c","o","m","e">> >> ],
     [ category |-> "Operating Expenses",
       keywords |-> << <<"u062A","u0634","u063A","u064A","u0644">>,
                     <<"u0635","u064A","u0627","u0646","u0629">>,
                     <<"u062E","u062F","u0645","u0629">>,
                     <<"o","p","e","r","a","t","i","o","n">>,
                     <<"m","a","i","n","t","e","n","a","n","c","e">>,
                     <<"s","e","r","v","i","c","e">> >> ],
     [ category |-> "Administrative Expenses",
       keywords |-> << <<"u0625","u062F","u0627","u0631","u0629">>,
                     <<"u0645","u0643","u062A","u0628">>,
                     <<"u0625","u064A","u062C","u0627","u0631">>,
                     <<"a","d","m","i","n","i","s","t","r","a","t","i","o","n">>,
                     <<"o","f","f","i","c","e">>,
                     <<"r","e","n","t">> >> ],
     [ category |-> "Marketing Expenses",
       keywords |-> << <<"u062A","u0633","u0648","u064A","u0642">>,
                     <<"u0625","u0639","u0644","u0627","u0646">>,
                     <<"u062F","u0639","u0627","u064A","u0629">>,
                     <<"m","a","r","k","e","t","i","n","g">>,
                     <<"a","d","v","e","r","t","i","s","i","n","g">>,
                     <<"p","r","o","m","o","t","i","o","n">> >> ],
     [ category |-> "Personnel Expenses",
       keywords |-> << <<"u0645","u0648","u0638","u0641">>,
                     <<"u062A","u0623","u0645","u064A","u0646">>,
                     <<"u062A","u062F","u0631","u064A","u0628">>,
                     <<"e","m","p","l","o","y","e","e">>,
                     <<"i","n","s","u","r","a","n","c","e">>,
                     <<"t","r","a","i","n","i","n","g">> >> ],
     [ category |-> "Financial Expenses",
       keywords |-> << <<"u0628","u0646","u0643">>,
                     <<"u0641","u0627","u0626","u062F","u0629">>,
                     <<"u0631","u0633","u0648","u0645">>,
                     <<"b","a","n","k">>,
                     <<"i","n","t","e","r","e","s","t">>,
                     <<"f","e","e","s">> >> ],
     [ category |-> "Purchases",
       keywords |-> << <<"u0634","u0631","u0627","u0621">>,
                     <<"u0645","u0634","u062A","u0631","u064A","u0627","u062A">>,
                     <<"u0628","u0636","u0627","u0639","u0629">>,
                     <<"p","u","r","c","h","a","s","e">>,
                     <<"g","o","o","d","s">>,
                     <<"i","n","v","e","n","t","o","r","y">> >> ],
     [ category |-> "Travel",
       keywords |-> << <<"u0633","u0641","u0631">>,
                     <<"u062A","u0630","u0643","u0631","u0629">>,
                     <<"u0641","u0646","u062F","u0642">>,
                     <<"t","r","a","v","e","l">>,
                     <<"t","i","c","k","e","t">>,
                     <<"h","o","t","e","l">> >> ]
  >>

\* category.startswith(<the word for "expenses">)
StartsWithExpensesWord(category) ==
  category \in {"Operating Expenses", "Administrative Expenses",
                "Marketing Expenses", "Personnel Expenses", "Financial Expenses"}

OtherIncome == "Other Income"
OtherExpenses == "Other Expenses"
Uncategorized == "Uncategorized"

\* str(x) of a description cell
StrOf(x) == IF x.tag = "text" THEN x.s ELSE <<"n","a","n">>

\* the default classification, with the empty string for a row that is
\* neither income nor expense
DefaultCategoryEmpty(is_income, is_expense) ==
  IF is_income THEN OtherIncome
  ELSE IF is_expense THEN OtherExpenses
  ELSE ""

\* the default classification, the expense test before the income test
DefaultCategoryExpensesFirst(is_income, is_expense) ==
  IF is_expense THEN OtherExpenses
  ELSE IF is_income THEN OtherIncome
  ELSE Uncategorized

\* the default classification at the end of classify_transactions
DefaultCategory(is_income, is_expense) ==
  IF is_income THEN OtherIncome
  ELSE IF is_expense THEN OtherExpenses
  ELSE Uncategorized

\* the test inside the loop without the side filter: the keyword match alone
CategoryReturnedNoFilter(entry, description, is_income, is_expense) ==
  \E n \in DOMAIN entry.keywords : Contains(description, entry.keywords[n])

\* the test inside the loop, an expense category accepted only for a row that
\* is not an income row as well
CategoryReturnedExclusiveSides(entry, description, is_income, is_expense) ==
  /\ \E n \in DOMAIN entry.keywords : Contains(description, entry.keywords[n])
  /\ IF is_income /\ ~StartsWithExpensesWord(entry.category)
          /\ entry.category # "Purchases" /\ entry.category # "Travel"
       THEN TRUE
       ELSE is_expense /\ ~is_income
            /\ ( StartsWithExpensesWord(entry.category)
                 \/ entry.category = "Purchases"
                 \/ entry.category = "Travel" )

\* the test inside the loop, an income row accepted for a category of either
\* group
CategoryReturnedIncomeAnyGroup(entry, description, is_income, is_expense) ==
  /\ \E n \in DOMAIN entry.keywords : Contains(description, entry.keywords[n])
  /\ IF is_income
       THEN TRUE
       ELSE is_expense /\ ( StartsWithExpensesWord(entry.category)
                            \/ entry.category = "Purchases"
                            \/ entry.category = "Travel" )

\* the test inside the loop over category_keywords.items(): the category is
\* returned when a keyword occurs in the description and the side filter
\* (if / elif) lets it pass
CategoryReturned(entry, description, is_income, is_expense) ==
  /\ \E n \in DOMAIN entry.keywords : Contains(description, entry.keywords[n])
  /\ IF is_income /\ ~StartsWithExpensesWord(entry.category)
          /\ entry.category # "Purchases" /\ entry.category # "Travel"
       THEN TRUE
       ELSE is_expense /\ ( StartsWithExpensesWord(entry.category)
                            \/ entry.category = "Purchases"
                            \/ entry.category = "Travel" )

\* row: a function from some of "Description", "Income", "Expenses" (and other
\* keys) to values
classify_transactions(row) ==
  LET is_income == "Income" \in DOMAIN row /\ row["Income"] > 0
      is_expense == "Expenses" \in DOMAIN row /\ row["Expenses"] > 0
      has_description ==
        /\ "Description" \in DOMAIN row
        /\ NotNa(row["Description"])
        /\ row["Description"] # Text(<<>>)
      description == Lower(StrOf(row["Description"]))
      returning ==
        IF has_description
        THEN { n \in DOMAIN category_keywords :
                 CategoryReturned(category_keywords[n], description,
                                  is_income, is_expense) }
        ELSE {}
  IN  IF returning # {}
      THEN category_keywords[CHOOSE n \in returning :
                               \A k \in returning : n <= k].category
      ELSE DefaultCategory(is_income, is_expense)

(***************************************************************************)
(* Calendar and number parsing, as far as the cells of the model need it.  *)
(***************************************************************************)
NaT == [tag |-> "nat"]

DigitValue ==
  [ c \in {"0","1","2","3","4","5","6","7","8","9"} |->
    CASE c = "0" -> 0 [] c = "1" -> 1 [] c = "2" -> 2 [] c = "3" -> 3
      [] c = "4" -> 4 [] c = "5" -> 5 [] c = "6" -> 6 [] c = "7" -> 7
      [] c = "8" -> 8 [] c = "9" -> 9 ]

DigitChar == [ n \in 0..9 |-> CHOOSE c \in DOMAIN DigitValue : DigitValue[c] = n ]

IsDigits(s) == Len(s) > 0 /\ \A i \in DOMAIN s : s[i] \in DOMAIN DigitValue

RECURSIVE DigitsValue(_)
DigitsValue(s) ==
  IF Len(s) = 0 THEN 0
  ELSE 10 * DigitsValue(SubSeq(s, 1, Len(s) - 1)) + DigitValue[s[Len(s)]]

RECURSIVE DecimalDigits(_)
\* str(k) for k >= 0
DecimalDigits(k) ==
  IF k < 10 THEN << DigitChar[k] >>
  ELSE Append(DecimalDigits(k \div 10), DigitChar[k % 10])

IsLeapYear(y) == (y % 4 = 0 /\ y % 100 # 0) \/ y % 400 = 0

DaysInMonth(y, m) ==
  IF m = 2 THEN (IF IsLeapYear(y) THEN 29 ELSE 28)
  ELSE IF m \in {4, 6, 9, 11} THEN 30 ELSE 31

\* the timestamp a text parses to (the ISO form YYYY-MM-DD), or NaT
ParseDate(s) ==
  IF /\ Len(s) = 10
     /\ s[5] = "-" /\ s[8] = "-"
     /\ IsDigits(SubSeq(s, 1, 4)) /\ IsDigits(SubSeq(s, 6, 7)) /\ IsDigits(SubSeq(s, 9, 10))
  THEN LET y == DigitsValue(SubSeq(s, 1, 4))
           m == DigitsValue(SubSeq(s, 6, 7))
           d == DigitsValue(SubSeq(s, 9, 10))
       IN  IF m \in 1..12 /\ d >= 1 /\ d <= DaysInMonth(y, m)
           THEN Timestamp(y, m, d) ELSE NaT
  ELSE NaT

\* pd.to_datetime(x, errors='coerce') of one cell
to_datetime(x) ==
  CASE x.tag = "date" -> x
    [] x.tag = "text" -> ParseDate(x.s)
    [] x.tag = "num"  -> Timestamp(1970, 1, 1)   \* nanoseconds since the epoch
    [] OTHER          -> NaT

\* the number a text parses to (an optional sign and digits), or NaN
ParseNumber(s) ==
  IF IsDigits(s) THEN Num(DigitsValue(s))
  ELSE IF Len(s) > 1 /\ s[1] = "-" /\ IsDigits(Tail(s)) THEN Num(0 - DigitsValue(Tail(s)))
  ELSE NaN

\* pd.to_numeric(x, errors='coerce') of one cell
to_numeric(x) ==
  CASE x.tag = "num"  -> x
    [] x.tag = "text" -> ParseNumber(x.s)
    [] OTHER          -> NaN

\* .fillna(0) of one numeric cell, as an integer
fillna0(x) == IF x.tag = "num" THEN x.v ELSE 0

Abs(n) == IF n < 0 THEN 0 - n ELSE n

\* the instant a is before the instant b
Earlier(a, b) ==
  \/ a.y < b.y
  \/ a.y = b.y /\ a.m < b.m
  \/ a.y = b.y /\ a.m = b.m /\ a.d < b.d

PrevDay(t) ==
  IF t.d > 1 THEN Timestamp(t.y, t.m, t.d - 1)
  ELSE IF t.m > 1 THEN Timestamp(t.y, t.m - 1, DaysInMonth(t.y, t.m - 1))
  ELSE Timestamp(t.y - 1, 12, 31)

RECURSIVE DaysBefore(_, _)
DaysBefore(t, k) == IF k = 0 THEN t ELSE DaysBefore(PrevDay(t), k - 1)

(***************************************************************************)
(* analyze_excel_data                                                      *)
(*                                                                         *)
(* A frame is a sequence of rows [index, cells]: index is the pandas row   *)
(* label, cells maps a column name to the cell.  Assigning a column of one *)
(* frame to another aligns on the row label.                               *)
(***************************************************************************)
IsMapped(mapping, field) == field \in DOMAIN mapping /\ mapping[field] # "None"

\* data[col] read at row label L of the frame being built
CellAt(data, col, L) ==
  IF \E j \in DOMAIN data : data[j].index = L
  THEN data[CHOOSE j \in DOMAIN data : data[j].index = L].cells[col]
  ELSE NaN

\* the row labels of processed_data: those of the first column assigned
IndexOf(data, mapping, i) ==
  IF IsMapped(mapping, "Date") THEN data[i].index ELSE i - 1

\* processed_data['Date']
DateColumn(data, mapping, now, i) ==
  IF IsMapped(mapping, "Date")
  THEN to_datetime(data[i].cells[mapping["Date"]])
  ELSE DaysBefore(now, Len(data) - i)   \* pd.date_range(end=now, periods=len(data), freq='D')

\* the text of the synthesized description, "<Transaction> #"
TransactionPrefix == <<"u0627","u0644","u0645","u0639","u0627","u0645","u0644","u0629"," ","#">>

\* processed_data['Description'], the synthesized texts numbered over the rows
\* that keep their date
DescriptionColumnRenumbered(data, mapping, i) ==
  IF IsMapped(mapping, "Description")
  THEN CellAt(data, mapping["Description"], IndexOf(data, mapping, i))
  ELSE Text(TransactionPrefix \o DecimalDigits(
         Cardinality({ j \in 1..i :
                         IsMapped(mapping, "Date") =>
                           NotNa(to_datetime(data[j].cells[mapping["Date"]])) })))

\* processed_data['Description']
DescriptionColumn(data, mapping, i) ==
  IF IsMapped(mapping, "Description")
  THEN CellAt(data, mapping["Description"], IndexOf(data, mapping, i))
  ELSE Text(TransactionPrefix \o DecimalDigits(i))

\* processed_data['Income']
IncomeColumn(data, mapping, i) ==
  IF IsMapped(mapping, "Income")
  THEN fillna0(to_numeric(CellAt(data, mapping["Income"], IndexOf(data, mapping, i))))
  ELSE 0

\* processed_data['Expenses'], the sign of a source value flipped
ExpensesColumnNegated(data, mapping, i) ==
  IF IsMapped(mapping, "Expenses")
  THEN 0 - fillna0(to_numeric(CellAt(data, mapping["Expenses"], IndexOf(data, mapping, i))))
  ELSE 0

\* processed_data['Expenses'], set to 0 as well when the Income cell of the row
\* is not a number
ExpensesColumnCoupled(data, mapping, i) ==
  IF /\ IsMapped(mapping, "Expenses")
     /\ IsMapped(mapping, "Income") =>
          to_numeric(CellAt(data, mapping["Income"], IndexOf(data, mapping, i))).tag = "num"
  THEN Abs(fillna0(to_numeric(CellAt(data, mapping["Expenses"], IndexOf(data, mapping, i)))))
  ELSE 0

\* processed_data['Expenses']
ExpensesColumn(data, mapping, i) ==
  IF IsMapped(mapping, "Expenses")
  THEN Abs(fillna0(to_numeric(CellAt(data, mapping["Expenses"], IndexOf(data, mapping, i)))))
  ELSE 0

\* .astype(str) of one category value
AsStr(x) == IF x.tag = "text" THEN x.s ELSE "nan"

\* the cleaning of the category column without the last replace
CleanCategoryKeepsNan(x) ==
  LET s == AsStr(x)
  IN  IF s = "" THEN Uncategorized ELSE s

\* the cleaning of the category column, 'nan' replaced by the empty string
CleanCategoryNanToEmpty(x) ==
  LET s == AsStr(x)
      r1 == IF s = "" THEN Uncategorized ELSE s
  IN  IF r1 = "nan" THEN "" ELSE r1

\* the cleaning of the category column: astype(str), fillna, replace('', ...),
\* replace('nan', ...)
CleanCategory(x) ==
  LET s == AsStr(x)
      r1 == IF s = "" THEN Uncategorized ELSE s
  IN  IF r1 = "nan" THEN Uncategorized ELSE r1

\* processed_data['Category'] before the cleaning
CategoryColumn(data, mapping, now, i) ==
  IF IsMapped(mapping, "Category")
  THEN CellAt(data, mapping["Category"], IndexOf(data, mapping, i))
  ELSE Text(classify_transactions(
              [ Date        |-> DateColumn(data, mapping, now, i),
                Description |-> DescriptionColumn(data, mapping, i),
                Income      |-> IncomeColumn(data, mapping, i),
                Expenses    |-> ExpensesColumn(data, mapping, i) ]))

\* processed_data['Net'], the two columns added
NetColumnSum(income, expenses) == income + expenses

\* processed_data['Net']
NetColumn(income, expenses) == income - expenses

\* row i of processed_data before dropna
ProcessedRow(data, mapping, now, i) ==
  LET income == IncomeColumn(data, mapping, i)
      expenses == ExpensesColumn(data, mapping, i)
  IN  [ index       |-> IndexOf(data, mapping, i),
        Date        |-> DateColumn(data, mapping, now, i),
        Description |-> DescriptionColumn(data, mapping, i),
        Income      |-> income,
        Expenses    |-> expenses,
        Category    |-> CleanCategory(CategoryColumn(data, mapping, now, i)),
        Net         |-> NetColumn(income, expenses) ]

HasDate(r) == NotNa(r.Date)

\* no row dropped
KeepAllRows(rows) == rows

\* processed_data.dropna(subset=['Date'])
DropNaDate(rows) == SelectSeq(rows, HasDate)

analyze_excel_data(data, mapping, now) ==
  DropNaDate([ i \in 1..Len(data) |-> ProcessedRow(data, mapping, now, i) ])


(***************************************************************************)
(* A frame handed to the insight and prediction functions: None, or the    *)
(* rows of a DataFrame.                                                    *)
(***************************************************************************)
None == [is_none |-> TRUE, rows |-> <<>>]
Frame(rows) == [is_none |-> FALSE, rows |-> rows]

\* data[field].iloc[-1]: the last value instead of the sum
ColumnSumLastRow(rows, field) ==
  IF Len(rows) = 0 THEN 0 ELSE rows[Len(rows)][field]

RECURSIVE ColumnSum(_, _)
\* data[field].sum()
ColumnSum(rows, field) ==
  IF Len(rows) = 0 THEN 0
  ELSE rows[1][field] + ColumnSum(Tail(rows), field)

(***************************************************************************)
(* generate_ai_insights                                                    *)
(*                                                                         *)
(* A text built from numbers is the record of its kind and its numbers.    *)
(***************************************************************************)
\* data is None
NoDataOnlyNone(data) == data.is_none

\* data is None or data.empty
NoData(data) == data.is_none \/ Len(data.rows) = 0

EmptyDataInsights ==
  [ summary         |-> [kind |-> "insufficient_data"],
    insights        |-> << [kind |-> "no_data_available"] >>,
    category_analysis |-> EmptyMapping,
    trends          |-> EmptyMapping,
    recommendations |-> << [kind |-> "upload_valid_file"] >> ]

\* the labels in the order pandas sorts group keys (code points of the source's
\* text: Latin before Arabic)
SortedLabels ==
  << "Food", "Misc", "Other Income", "Investments", "Donations", "Salaries",
     "Travel", "Uncategorized", "Sales", "Purchases", "Other Expenses",
     "Administrative Expenses", "Personnel Expenses", "Marketing Expenses",
     "Operating Expenses", "Financial Expenses" >>

RowsOfCategory(rows, category) ==
  SelectSeq(rows, LAMBDA r : r.Category = category)

\* the sum of the whole column under every group key
GroupSumsWholeColumn(rows, field) ==
  [ c \in { rows[i].Category : i \in DOMAIN rows } |-> ColumnSum(rows, field) ]

\* data.groupby('Category')[field].sum(), as a function of the group keys
GroupSums(rows, field) ==
  [ c \in { rows[i].Category : i \in DOMAIN rows } |->
      ColumnSum(RowsOfCategory(rows, c), field) ]

\* series.idxmax(): the first key, in sorted order, with the largest value
IdxMax(series) ==
  LET top == { n \in DOMAIN SortedLabels :
                 /\ SortedLabels[n] \in DOMAIN series
                 /\ \A c \in DOMAIN series : series[c] <= series[SortedLabels[n]] }
  IN  SortedLabels[CHOOSE n \in top : \A k \in top : n <= k]

\* series.max()
MaxOf(series) == CHOOSE v \in { series[c] : c \in DOMAIN series } :
                   \A c \in DOMAIN series : series[c] <= v

\* the recommendations, the surplus messages for a positive net only
RecommendationsStrictSign(net_cash_flow) ==
  IF net_cash_flow <= 0
  THEN << [kind |-> "cut_expenses"], [kind |-> "find_new_revenue"] >>
  ELSE << [kind |-> "keep_balance"], [kind |-> "invest_surplus"] >>

\* the two recommendations, chosen by the sign of the net cash flow
Recommendations(net_cash_flow) ==
  IF net_cash_flow < 0
  THEN << [kind |-> "cut_expenses"], [kind |-> "find_new_revenue"] >>
  ELSE << [kind |-> "keep_balance"], [kind |-> "invest_surplus"] >>

generate_ai_insights(data) ==
  IF NoData(data) THEN EmptyDataInsights
  ELSE
    LET rows == data.rows
        total_income == ColumnSum(rows, "Income")
        total_expenses == ColumnSum(rows, "Expenses")
        net_cash_flow == total_income - total_expenses
        expenses_by_category == GroupSums(rows, "Expenses")
        income_by_category == GroupSums(rows, "Income")
        category_analysis ==
          [ c \in DOMAIN expenses_by_category \cup DOMAIN income_by_category |->
              [ expenses |-> expenses_by_category[c],
                income   |-> income_by_category[c],
                net      |-> income_by_category[c] - expenses_by_category[c] ] ]
        summary ==
          IF net_cash_flow >= 0
          THEN [ kind |-> "income_exceeds_expenses", total_income |-> total_income,
                 total_expenses |-> total_expenses, amount |-> net_cash_flow ]
          ELSE [ kind |-> "expenses_exceed_income", total_income |-> total_income,
                 total_expenses |-> total_expenses, amount |-> Abs(net_cash_flow) ]
        first_insight ==
          IF net_cash_flow >= 0 THEN [kind |-> "positive_cash_flow"]
                                ELSE [kind |-> "negative_cash_flow"]
        top_expense ==
          IF DOMAIN expenses_by_category # {}
          THEN [ kind |-> "top_expense_category",
                 category |-> IdxMax(expenses_by_category),
                 value |-> MaxOf(expenses_by_category) ]
          ELSE [ kind |-> "top_expense_category", category |-> "not available", value |-> 0 ]
        top_income ==
          IF DOMAIN income_by_category # {}
          THEN [ kind |-> "top_income_category",
                 category |-> IdxMax(income_by_category),
                 value |-> MaxOf(income_by_category) ]
          ELSE [ kind |-> "top_income_category", category |-> "not available", value |-> 0 ]
        recommendations == Recommendations(net_cash_flow)
    IN  [ summary         |-> summary,
          insights        |-> << first_insight, top_expense, top_income >>,
          category_analysis |-> category_analysis,
          trends          |-> EmptyMapping,
          recommendations |-> recommendations ]

(***************************************************************************)
(* generate_financial_predictions                                          *)
(*                                                                         *)
(* A real number is a fraction [num, den] in lowest terms with den > 0;    *)
(* the arithmetic is exact.                                                *)
(***************************************************************************)
RECURSIVE Gcd(_, _)
Gcd(a, b) == IF b = 0 THEN a ELSE Gcd(b, a % b)

Frac(n, d) ==
  LET g == Gcd(Abs(n), d) IN [num |-> n \div g, den |-> d \div g]

Lcm(a, b) == (a \div Gcd(a, b)) * b

FracMul(a, b) == Frac(a.num * b.num, a.den * b.den)
FracAdd(a, b) ==
  LET d == Lcm(a.den, b.den)
  IN  Frac(a.num * (d \div a.den) + b.num * (d \div b.den), d)
FracSub(a, b) ==
  LET d == Lcm(a.den, b.den)
  IN  Frac(a.num * (d \div a.den) - b.num * (d \div b.den), d)
FracEq(a, b) == a = b
FracPositive(a) == a.num > 0

\* the number of a calendar month, counted from year 0
MonthIndex(t) == t.y * 12 + (t.m - 1)

UsableDates(rows) == { i \in DOMAIN rows : NotNa(to_datetime(rows[i].Date)) }

\* data['Date'] = pd.to_datetime(data['Date'], errors='coerce')
DatesConverted(rows) ==
  [ i \in DOMAIN rows |-> [ rows[i] EXCEPT !.Date = to_datetime(rows[i].Date) ] ]

\* the end of the month of a timestamp: the label of its monthly bucket
MonthEnd(t) == Timestamp(t.y, t.m, DaysInMonth(t.y, t.m))

\* data_by_month['Date'].max(): the bucket of the latest dated row
LastBucket(rows) ==
  LET latest == CHOOSE i \in UsableDates(rows) :
                  \A j \in UsableDates(rows) :
                    MonthIndex(rows[j].Date) <= MonthIndex(rows[i].Date)
  IN  MonthEnd(rows[latest].Date)

\* the number of months that hold a record
BucketCountNonEmpty(rows) ==
  Cardinality({ MonthIndex(rows[i].Date) : i \in UsableDates(rows) })

\* the number of monthly buckets: every month from the earliest to the latest
BucketCount(rows) ==
  LET earliest == CHOOSE i \in UsableDates(rows) :
                    \A j \in UsableDates(rows) :
                      MonthIndex(rows[i].Date) <= MonthIndex(rows[j].Date)
  IN  MonthIndex(LastBucket(rows)) - MonthIndex(rows[earliest].Date) + 1

\* data_by_month[field].mean(): the rows without a date are in no bucket
BucketMean(rows, field) ==
  Frac(ColumnSum(SelectSeq(rows, HasDate), field), BucketCount(rows))

\* t + pd.DateOffset(months=i), the year not carried
AddMonthsNoCarry(t, i) ==
  LET m == ((t.m - 1 + i) % 12) + 1
  IN  Timestamp(t.y, m, IF t.d > DaysInMonth(t.y, m) THEN DaysInMonth(t.y, m) ELSE t.d)

\* t + pd.DateOffset(months=i)
AddMonths(t, i) ==
  LET y == t.y + ((t.m - 1 + i) \div 12)
      m == ((t.m - 1 + i) % 12) + 1
  IN  Timestamp(y, m, IF t.d > DaysInMonth(y, m) THEN DaysInMonth(y, m) ELSE t.d)

\* the digits of k, zero-padded to the width w
RECURSIVE ZeroPadded(_, _)
ZeroPadded(k, w) ==
  IF w = 0 THEN <<>> ELSE Append(ZeroPadded(k \div 10, w - 1), DigitChar[k % 10])

\* t.strftime('%Y-%m')
StrfYearMonth(t) == ZeroPadded(t.y, 4) \o <<"-">> \o ZeroPadded(t.m, 2)

RECURSIVE FracGrown(_, _, _)
\* a multiplied k times by the rate r
FracGrown(a, r, k) == IF k = 0 THEN a ELSE FracMul(FracGrown(a, r, k - 1), r)

\* the entry of iteration i with compounding growth: 1.01 (1.005) times the
\* entry before it
PredictionCompounding(last, income_mean, expenses_mean, i) ==
  LET next_month == AddMonths(last, i)
      predicted_income == FracGrown(income_mean, Frac(101, 100), i)
      predicted_expenses == FracGrown(expenses_mean, Frac(1005, 1000), i)
      predicted_net == FracSub(predicted_income, predicted_expenses)
  IN  [ month              |-> StrfYearMonth(next_month),
        predicted_income   |-> predicted_income,
        predicted_expenses |-> predicted_expenses,
        predicted_net      |-> predicted_net,
        growth_rate        |-> Frac(1, 100) ]

\* the entry appended in iteration i of the loop
Prediction(last, income_mean, expenses_mean, i) ==
  LET next_month == AddMonths(last, i)
      predicted_income == FracMul(income_mean, FracAdd(Frac(1, 1), FracMul(Frac(i, 1), Frac(1, 100))))
      predicted_expenses == FracMul(expenses_mean, FracAdd(Frac(1, 1), FracMul(Frac(i, 1), Frac(5, 1000))))
      predicted_net == FracSub(predicted_income, predicted_expenses)
  IN  [ month              |-> StrfYearMonth(next_month),
        predicted_income   |-> predicted_income,
        predicted_expenses |-> predicted_expenses,
        predicted_net      |-> predicted_net,
        growth_rate        |-> Frac(1, 100) ]

\* pd.Timestamp.max, to the day: the last instant a Timestamp can hold
TimestampMax == Timestamp(2262, 4, 11)

\* building the Timestamp t raises OutOfBoundsDatetime
OutOfBounds(t) == Earlier(TimestampMax, t)

\* the groupby raises: the label of the latest monthly bucket, the end of its
\* month, is no Timestamp
BucketingRaises(rows) == OutOfBounds(LastBucket(rows))

\* last_date + pd.DateOffset(months=i) raises
AddMonthsRaises(t, i) == OutOfBounds(AddMonths(t, i))

\* the entry appended in iteration i of the loop of the except branch
ZeroPrediction(now, i) ==
  [ month              |-> StrfYearMonth(AddMonths(now, i)),
    predicted_income   |-> Frac(0, 1),
    predicted_expenses |-> Frac(0, 1),
    predicted_net      |-> Frac(0, 1),
    growth_rate        |-> Frac(0, 1) ]

\* data is None or data.empty
NoHistory(data) == data.is_none \/ Len(data.rows) = 0

\* not data['Date'].isna().all()
HasAnyDate(rows) == \E i \in DOMAIN rows : NotNa(rows[i].Date)

NoPrediction == [ summary |-> [kind |-> "insufficient_data"], monthly_predictions |-> <<>> ]

\* the whole function, as its callers see it: the early return, the loop, and
\* the except branch after the step that raises
generate_financial_predictions(data, n, now) ==
  IF NoHistory(data) THEN NoPrediction
  ELSE
    LET rows == DatesConverted(data.rows)
        zeros == [ i \in 1..n |-> ZeroPrediction(now, i) ]
        monthly ==
          IF ~HasAnyDate(data.rows) THEN <<>>
          ELSE IF BucketingRaises(rows) THEN zeros
          ELSE
            LET last == LastBucket(rows)
                income_mean == BucketMean(rows, "Income")
                expenses_mean == BucketMean(rows, "Expenses")
                completed == { i \in 1..n : \A k \in 1..i : ~AddMonthsRaises(last, k) }
                appended == [ i \in 1..Cardinality(completed) |->
                                Prediction(last, income_mean, expenses_mean, i) ]
            IN  IF Cardinality(completed) = n THEN appended ELSE appended \o zeros
    IN  [ summary |-> [kind |-> "predictions_created", months |-> n],
          monthly_predictions |-> monthly ]

(***************************************************************************)
(* The inputs of the model.                                                *)
(***************************************************************************)
RawRow(date, description, category, income, expenses) ==
  [ Date |-> date, Description |-> description, Category |-> category,
    Income |-> income, Expenses |-> expenses ]

SalaryPayment == Text(<<"S","a","l","a","r","y"," ","p","a","y","m","e","n","t">>)
OfficeRent == Text(<<"O","f","f","i","c","e"," ","r","e","n","t">>)
BankInvestment == Text(<<"b","a","n","k"," ","i","n","v","e","s","t","m","e","n","t">>)
SalaryArabic == Text(<<"u0631","u0627","u062A","u0628"," ","u0634","u0647","u0631">>)
Unmatched == Text(<<"x","y","z">>)

\* the rows a sheet may hold; the columns carry the canonical names
RawRowPool ==
  { RawRow(Timestamp(2024, 1, 15), SalaryPayment, NaN, Num(5000), Num(0)),
    RawRow(Text(<<"2","0","2","4","-","0","1","-","2","0">>), OfficeRent, Text(""), Num(0), Num(1200)),
    RawRow(Text(<<"n","o","t","-","a","-","d","a","t","e">>), OfficeRent, Text("Food"), Num(0), Num(1200)),
    RawRow(Timestamp(2024, 3, 31), NaN, Text("nan"), Num(0 - 50), Num(0 - 300)),
    RawRow(NaN, SalaryPayment, Text("Food"), Num(5000), Num(0)),
    RawRow(Timestamp(2024, 12, 5), BankInvestment, Text("Food"),
           Text(<<"a","b","c">>), Text(<<"-","7">>)),
    RawRow(Timestamp(2024, 12, 5), Text(<<>>), NaN, NaN, NaN),
    RawRow(Timestamp(2025, 2, 10), BankInvestment, Text("Misc"), Num(700), Num(40)) }

\* a frame as read_excel returns it: row labels 0, 1, ...
MakeFrame(rows) == [ i \in 1..Len(rows) |-> [index |-> i - 1, cells |-> rows[i]] ]

RawFrames == { MakeFrame(s) : s \in SeqsUpTo(RawRowPool, MaxRows) \ { <<>> } }

\* a mapping names, for some of the canonical fields, the column of that name
Mappings == { [ f \in S |-> f ] : S \in SUBSET Fields }

IdentityMapping == [ f \in Fields |-> f ]

\* datetime.now(), to the day
NowPool == { Timestamp(2024, 12, 31), Timestamp(2025, 1, 1) }

\* processed_data read back as a raw frame
AsRawFrame(rows) ==
  [ i \in 1..Len(rows) |->
      [ index |-> rows[i].index,
        cells |-> [ Date        |-> rows[i].Date,
                    Description |-> rows[i].Description,
                    Category    |-> Text(rows[i].Category),
                    Income      |-> Num(rows[i].Income),
                    Expenses    |-> Num(rows[i].Expenses),
                    Net         |-> Num(rows[i].Net) ] ] ]

\* the rows handed to classify_transactions: each key is present or not (an
\* option is the empty sequence, or the value alone in a sequence)
Options(S) == { <<>> } \cup { <<x>> : x \in S }

Entry(key, option) == IF option = <<>> THEN EmptyMapping ELSE key :> option[1]

ClassifyRows ==
  { Entry("Description", d) @@ Entry("Income", i) @@ Entry("Expenses", e) :
      d \in Options({NaN, Text(<<>>), SalaryPayment, OfficeRent, BankInvestment,
                     SalaryArabic, Unmatched}),
      i \in Options({0 - 50, 0, 5000}),
      e \in Options({0, 1200}) }

\* the mappings the dashboard's detection gives for a sheet with description
\* and amount columns: the Date and the Category column found or not
PipelineMappings ==
  { m \in Mappings : {"Description", "Income", "Expenses"} \subseteq DOMAIN m }

\* the frames analyze_excel_data returns
ProcessedPool ==
  { analyze_excel_data(f, m, now) : f \in RawFrames, m \in PipelineMappings, now \in NowPool }

\* the rows with every date missing
WithoutDates(rows) == [ i \in DOMAIN rows |-> [ rows[i] EXCEPT !.Date = NaT ] ]

SummarizeInputs == { None } \cup { Frame(r) : r \in ProcessedPool }

\* str(t.date()): the date as the text YYYY-MM-DD
StrfDate(t) ==
  Text(ZeroPadded(t.y, 4) \o <<"-">> \o ZeroPadded(t.m, 2) \o <<"-">> \o ZeroPadded(t.d, 2))

\* the rows with the Date column held as text (dtype object), as a caller
\* that kept or reloaded the dates as strings passes them
WithTextDates(rows) ==
  [ i \in DOMAIN rows |-> [ rows[i] EXCEPT !.Date = StrfDate(rows[i].Date) ] ]

PredictInputs ==
  { None } \cup { Frame(r) : r \in ProcessedPool }
           \cup { Frame(WithoutDates(r)) : r \in ProcessedPool }
           \cup { Frame(WithTextDates(r)) : r \in ProcessedPool }

\* the rows, every one dated d
DatedAt(rows, d) == [ i \in DOMAIN rows |-> [ rows[i] EXCEPT !.Date = d ] ]

\* dates in the last months a Timestamp can hold
EdgeDates == { Timestamp(2262, 2, 10), Timestamp(2262, 3, 10), Timestamp(2262, 4, 5) }

\* frames at the end of the Timestamp range, and the frames without data or
\* without dates
PredictEdgeInputs ==
  { None } \cup { Frame(DatedAt(r, d)) : r \in ProcessedPool, d \in EdgeDates }
           \cup { Frame(WithoutDates(r)) : r \in ProcessedPool }

(***************************************************************************)
(* The state machines: one specification per function, each starting from  *)
(* the inputs of the function and running its steps.                       *)
(***************************************************************************)
IdleDetect ==
  /\ columns = <<>>
  /\ column_mapping = EmptyMapping
  /\ col_idx = 1
  /\ detect_pc = "idle"

IdleNormalize ==
  /\ df = <<>>
  /\ mapping_in = EmptyMapping
  /\ processed_data = <<>>
  /\ reprocessed = <<>>
  /\ current_date = NaT
  /\ processed_again = <<>>
  /\ norm_pc = "idle"

IdleClassify ==
  /\ cls_row = EmptyMapping
  /\ label = "(none)"
  /\ cls_pc = "idle"

IdleSummarize ==
  /\ sum_data = None
  /\ analysis_results = EmptyMapping
  /\ sum_pc = "idle"

IdlePredict ==
  /\ pred_data = None
  /\ months_ahead = 0
  /\ last_date = NaT
  /\ avg_income = Frac(0, 1)
  /\ avg_expenses = Frac(0, 1)
  /\ pred_i = 0
  /\ monthly_data = <<>>
  /\ predictions = EmptyMapping
  /\ pred_pc = "idle"

\* st.session_state after the `if key not in st.session_state` block, the
\* environment holding no API key
InitialSessionState ==
  [ data |-> None, processed_data |-> None, api_key |-> "",
    analysis_results |-> None, predictions |-> None ]

IdleSession == session_state = InitialSessionState

InitDetect ==
  /\ columns \in DistinctSeqs(HeaderPool, MaxCols)
  /\ column_mapping = EmptyMapping
  /\ col_idx = 1
  /\ detect_pc = "loop"
  /\ IdleNormalize /\ IdleClassify /\ IdleSummarize /\ IdlePredict /\ IdleSession

\* the body of the for loop, for the next header
DetectLoop ==
  /\ detect_pc = "loop"
  /\ col_idx <= Len(columns)
  /\ column_mapping' = DetectColumn(column_mapping, columns[col_idx])
  /\ col_idx' = col_idx + 1
  /\ UNCHANGED <<columns, detect_pc, normVars, clsVars, sumVars, predVars, sessionVars>>

\* return column_mapping
DetectReturn ==
  /\ detect_pc = "loop"
  /\ col_idx > Len(columns)
  /\ detect_pc' = "done"
  /\ UNCHANGED <<columns, column_mapping, col_idx, normVars, clsVars, sumVars, predVars, sessionVars>>

NextDetect == DetectLoop \/ DetectReturn

SpecDetect == InitDetect /\ [][NextDetect]_vars

InitNormalize ==
  /\ df \in RawFrames
  /\ mapping_in \in Mappings
  /\ processed_data = <<>>
  /\ reprocessed = <<>>
  /\ current_date = NaT
  /\ processed_again = <<>>
  /\ norm_pc = "loaded"
  /\ IdleDetect /\ IdleClassify /\ IdleSummarize /\ IdlePredict /\ IdleSession

\* processed_data = analyze_excel_data(df, col_mapping)
Analyze ==
  /\ norm_pc = "loaded"
  /\ \E now \in NowPool :
       /\ current_date' = now
       /\ processed_data' = analyze_excel_data(df, mapping_in, now)
  /\ norm_pc' = "analyzed"
  /\ UNCHANGED <<df, mapping_in, reprocessed, processed_again>>
  /\ UNCHANGED <<detectVars, clsVars, sumVars, predVars, sessionVars>>

\* analyze_excel_data on its own output, every field mapped to the column of
\* its name
Reanalyze ==
  /\ norm_pc = "analyzed"
  /\ \E now \in NowPool :
       /\ ~Earlier(now, current_date)
       /\ current_date' = now
       /\ reprocessed' = analyze_excel_data(AsRawFrame(processed_data), IdentityMapping, now)
  /\ norm_pc' = "reanalyzed"
  /\ UNCHANGED <<df, mapping_in, processed_data, processed_again>>
  /\ UNCHANGED <<detectVars, clsVars, sumVars, predVars, sessionVars>>

\* analyze_excel_data called a second time, later, with the arguments of the
\* first call
AnalyzeAgain ==
  /\ norm_pc = "analyzed"
  /\ \E now \in NowPool :
       /\ ~Earlier(now, current_date)
       /\ current_date' = now
       /\ processed_again' = analyze_excel_data(df, mapping_in, now)
  /\ norm_pc' = "repeated"
  /\ UNCHANGED <<df, mapping_in, processed_data, reprocessed>>
  /\ UNCHANGED <<detectVars, clsVars, sumVars, predVars, sessionVars>>

NextNormalize == Analyze \/ Reanalyze \/ AnalyzeAgain

SpecNormalize == InitNormalize /\ [][NextNormalize]_vars

InitClassify ==
  /\ cls_row \in ClassifyRows
  /\ label = "(none)"
  /\ cls_pc = "call"
  /\ IdleDetect /\ IdleNormalize /\ IdleSummarize /\ IdlePredict /\ IdleSession

\* label = classify_transactions(cls_row)
Classify ==
  /\ cls_pc = "call"
  /\ label' = classify_transactions(cls_row)
  /\ cls_pc' = "done"
  /\ UNCHANGED <<cls_row, detectVars, normVars, sumVars, predVars, sessionVars>>

NextClassify == Classify

SpecClassify == InitClassify /\ [][NextClassify]_vars

InitSummarize ==
  /\ sum_data \in SummarizeInputs
  /\ analysis_results = EmptyMapping
  /\ sum_pc = "call"
  /\ IdleDetect /\ IdleNormalize /\ IdleClassify /\ IdlePredict /\ IdleSession

\* analysis_results = generate_ai_insights(processed_data)
Summarize ==
  /\ sum_pc = "call"
  /\ analysis_results' = generate_ai_insights(sum_data)
  /\ sum_pc' = "done"
  /\ UNCHANGED <<sum_data, detectVars, normVars, clsVars, predVars, sessionVars>>

NextSummarize == Summarize

SpecSummarize == InitSummarize /\ [][NextSummarize]_vars

InitPredict ==
  /\ pred_data \in PredictInputs
  /\ months_ahead \in 1..MaxMonthsAhead
  /\ last_date = NaT
  /\ avg_income = Frac(0, 1)
  /\ avg_expenses = Frac(0, 1)
  /\ pred_i = 0
  /\ monthly_data = <<>>
  /\ predictions = EmptyMapping
  /\ pred_pc = "call"
  /\ IdleDetect /\ IdleNormalize /\ IdleClassify /\ IdleSummarize /\ IdleSession

\* the early return for missing data
PredictNoData ==
  /\ pred_pc = "call"
  /\ NoHistory(pred_data)
  /\ predictions' = NoPrediction
  /\ pred_pc' = "done"
  /\ UNCHANGED <<pred_data, months_ahead, last_date, avg_income, avg_expenses,
                 pred_i, monthly_data>>
  /\ UNCHANGED <<detectVars, normVars, clsVars, sumVars, sessionVars>>

\* the frame has dates: convert the Date column in place, group by month, take
\* the latest bucket and the two means
PredictBuckets ==
  /\ pred_pc = "call"
  /\ ~NoHistory(pred_data)
  /\ HasAnyDate(pred_data.rows)
  /\ ~BucketingRaises(DatesConverted(pred_data.rows))
  /\ LET rows == DatesConverted(pred_data.rows)
     IN  /\ pred_data' = Frame(rows)
         /\ last_date' = LastBucket(rows)
         /\ avg_income' = BucketMean(rows, "Income")
         /\ avg_expenses' = BucketMean(rows, "Expenses")
  /\ pred_i' = 1
  /\ pred_pc' = "loop"
  /\ UNCHANGED <<months_ahead, monthly_data, predictions>>
  /\ UNCHANGED <<detectVars, normVars, clsVars, sumVars, sessionVars>>

\* the frame has no date at all: the if is skipped
PredictSkip ==
  /\ pred_pc = "call"
  /\ ~NoHistory(pred_data)
  /\ ~HasAnyDate(pred_data.rows)
  /\ pred_pc' = "summary"
  /\ UNCHANGED <<pred_data, months_ahead, last_date, avg_income, avg_expenses,
                 pred_i, monthly_data, predictions>>
  /\ UNCHANGED <<detectVars, normVars, clsVars, sumVars, sessionVars>>

\* one iteration of `for i in range(1, months_ahead + 1)`
PredictMonth ==
  /\ pred_pc = "loop"
  /\ pred_i <= months_ahead
  /\ ~AddMonthsRaises(last_date, pred_i)
  /\ monthly_data' = Append(monthly_data,
                            Prediction(last_date, avg_income, avg_expenses, pred_i))
  /\ pred_i' = pred_i + 1
  /\ UNCHANGED <<pred_data, months_ahead, last_date, avg_income, avg_expenses,
                 predictions, pred_pc>>
  /\ UNCHANGED <<detectVars, normVars, clsVars, sumVars, sessionVars>>

\* the summary text and the return
PredictReturn ==
  /\ \/ pred_pc = "summary"
     \/ pred_pc = "loop" /\ pred_i > months_ahead
  /\ predictions' = [ summary |-> [kind |-> "predictions_created", months |-> months_ahead],
                      monthly_predictions |-> monthly_data ]
  /\ pred_pc' = "done"
  /\ UNCHANGED <<pred_data, months_ahead, last_date, avg_income, avg_expenses,
                 pred_i, monthly_data>>
  /\ UNCHANGED <<detectVars, normVars, clsVars, sumVars, sessionVars>>

NextPredict ==
  PredictNoData \/ PredictBuckets \/ PredictSkip \/ PredictMonth \/ PredictReturn

SpecPredict == InitPredict /\ [][NextPredict]_vars

(***************************************************************************)
(* generate_financial_predictions with the steps that raise, for frames    *)
(* dated at the end of the Timestamp range.                                *)
(***************************************************************************)
InitPredictEdge ==
  /\ pred_data \in PredictEdgeInputs
  /\ months_ahead \in 1..MaxMonthsAhead
  /\ last_date = NaT
  /\ avg_income = Frac(0, 1)
  /\ avg_expenses = Frac(0, 1)
  /\ pred_i = 0
  /\ monthly_data = <<>>
  /\ predictions = EmptyMapping
  /\ pred_pc = "call"
  /\ IdleDetect /\ IdleNormalize /\ IdleClassify /\ IdleSummarize /\ IdleSession

\* the Date column is converted in place and the groupby raises
PredictBucketsRaise ==
  /\ pred_pc = "call"
  /\ ~NoHistory(pred_data)
  /\ HasAnyDate(pred_data.rows)
  /\ BucketingRaises(DatesConverted(pred_data.rows))
  /\ pred_data' = Frame(DatesConverted(pred_data.rows))
  /\ pred_pc' = "except"
  /\ UNCHANGED <<months_ahead, last_date, avg_income, avg_expenses, pred_i,
                 monthly_data, predictions>>
  /\ UNCHANGED <<detectVars, normVars, clsVars, sumVars, sessionVars>>

\* iteration i of the loop raises at its first statement
PredictMonthRaise ==
  /\ pred_pc = "loop"
  /\ pred_i <= months_ahead
  /\ AddMonthsRaises(last_date, pred_i)
  /\ pred_pc' = "except"
  /\ UNCHANGED <<pred_data, months_ahead, last_date, avg_income, avg_expenses,
                 pred_i, monthly_data, predictions>>
  /\ UNCHANGED <<detectVars, normVars, clsVars, sumVars, sessionVars>>

\* the except branch: months_ahead entries of zeros, labelled from the clock,
\* appended to monthly_data
PredictExcept ==
  /\ pred_pc = "except"
  /\ \E now \in NowPool :
       monthly_data' = monthly_data \o [ i \in 1..months_ahead |-> ZeroPrediction(now, i) ]
  /\ pred_pc' = "summary"
  /\ UNCHANGED <<pred_data, months_ahead, last_date, avg_income, avg_expenses,
                 pred_i, predictions>>
  /\ UNCHANGED <<detectVars, normVars, clsVars, sumVars, sessionVars>>

NextPredictEdge ==
  \/ PredictNoData \/ PredictBuckets \/ PredictSkip \/ PredictMonth \/ PredictReturn
  \/ PredictBucketsRaise \/ PredictMonthRaise \/ PredictExcept

SpecPredictEdge == InitPredictEdge /\ [][NextPredictEdge]_vars

(***************************************************************************)
(* The dashboard.  Streamlit runs the script from top to bottom on every   *)
(* interaction, with at most one button pressed in a run; an action is one *)
(* run.  session_state holds a sheet as its headers and its frame.         *)
(***************************************************************************)

\* the header lists of the uploaded sheets: all columns found, no date
\* column, no column found
SessionHeaders ==
  { << <<"D","a","t","e">>,
       <<"D","e","s","c","r","i","p","t","i","o","n">>,
       <<"I","n","c","o","m","e">>,
       <<"E","x","p","e","n","s","e","s">> >>,
    << <<"D","e","s","c","r","i","p","t","i","o","n">>,
       <<"I","n","c","o","m","e">>,
       <<"E","x","p","e","n","s","e","s">> >>,
    << <<"N","o","t","e","s">> >> }

\* the frames of the uploaded sheets: two months of records, one later
\* record, a record without a usable date, a record at the end of the
\* Timestamp range
SessionFrames ==
  { MakeFrame(<<RawRow(Timestamp(2024, 1, 15), SalaryPayment, NaN, Num(5000), Num(0)),
                RawRow(Timestamp(2024, 3, 31), OfficeRent, NaN, Num(0), Num(1200))>>),
    MakeFrame(<<RawRow(Timestamp(2025, 2, 10), BankInvestment, NaN, Num(700), Num(40))>>),
    MakeFrame(<<RawRow(Text(<<"n","o","t","-","a","-","d","a","t","e">>), OfficeRent, NaN,
                       Num(0), Num(1200))>>),
    MakeFrame(<<RawRow(Timestamp(2262, 3, 10), SalaryPayment, NaN, Num(5000), Num(0))>>) }

SessionSheets == { [columns |-> c, rows |-> f] : c \in SessionHeaders, f \in SessionFrames }

\* the values of the API key field
ApiKeys == { "", "sk-key" }

\* col_mapping for a sheet: the column found for a field carries the cells of
\* that field
SheetMapping(sheet) == [ f \in DOMAIN detect_excel_structure(sheet.columns) |-> f ]

\* data['Date'] = pd.to_datetime(data['Date'], errors='coerce') on the frame
\* stored in the session
DateColumnConverted(data) ==
  IF data.is_none THEN data ELSE Frame(DatesConverted(data.rows))

\* the charts tab, which every run passes through
ChartsTab(ss) == [ ss EXCEPT !.processed_data = DateColumnConverted(@) ]

\* the analyse button that leaves the earlier results in place
AnalyzeButtonKeepsResults(ss, now) ==
  [ ss EXCEPT !.processed_data =
                Frame(analyze_excel_data(ss.data.rows, SheetMapping(ss.data), now)) ]

\* the body of the analyse button
AnalyzeButton(ss, now) ==
  [ ss EXCEPT !.processed_data =
                Frame(analyze_excel_data(ss.data.rows, SheetMapping(ss.data), now)),
              !.analysis_results = None,
              !.predictions = None ]

\* the body of the insights button
InsightsButton(ss) ==
  [ ss EXCEPT !.analysis_results = generate_ai_insights(ss.processed_data) ]

\* the body of the report button, as far as the session goes
ReportButton(ss, use_ai) ==
  IF use_ai /\ ss.analysis_results = None /\ ss.api_key # ""
  THEN [ ss EXCEPT !.analysis_results = generate_ai_insights(ss.processed_data) ]
  ELSE ss

\* the body of the predictions button; the function converts the Date column
\* of the frame it is given
PredictionsButton(ss, n, now) ==
  [ ss EXCEPT !.processed_data =
                IF NoHistory(@) \/ ~HasAnyDate(@.rows) THEN @ ELSE DateColumnConverted(@),
              !.predictions = generate_financial_predictions(ss.processed_data, n, now) ]

InitSession ==
  /\ session_state \in { [ InitialSessionState EXCEPT !.api_key = k ] : k \in ApiKeys }
  /\ IdleDetect /\ IdleNormalize /\ IdleClassify /\ IdleSummarize /\ IdlePredict

\* a file is put into the uploader
Upload ==
  /\ \E sheet \in SessionSheets :
       session_state' = ChartsTab([ session_state EXCEPT !.data = sheet ])
  /\ UNCHANGED <<detectVars, normVars, clsVars, sumVars, predVars>>

\* the key field of the sidebar is edited
SetApiKey ==
  /\ \E api_key \in ApiKeys :
       /\ api_key # session_state.api_key
       /\ session_state' = ChartsTab([ session_state EXCEPT !.api_key = api_key ])
  /\ UNCHANGED <<detectVars, normVars, clsVars, sumVars, predVars>>

\* the analyse button, shown for an uploaded sheet with a column found
PressAnalyze ==
  /\ session_state.data # None
  /\ SheetMapping(session_state.data) # EmptyMapping
  /\ \E now \in NowPool :
       session_state' = ChartsTab(AnalyzeButton(session_state, now))
  /\ UNCHANGED <<detectVars, normVars, clsVars, sumVars, predVars>>

\* the insights button, shown with data, a key and no results yet
PressInsights ==
  /\ session_state.processed_data # None
  /\ session_state.api_key # ""
  /\ session_state.analysis_results = None
  /\ session_state' = ChartsTab(InsightsButton(session_state))
  /\ UNCHANGED <<detectVars, normVars, clsVars, sumVars, predVars>>

\* the report button, shown with data; the checkbox either way
PressReport ==
  /\ session_state.processed_data # None
  /\ \E use_ai \in BOOLEAN :
       session_state' = ReportButton(ChartsTab(session_state), use_ai)
  /\ UNCHANGED <<detectVars, normVars, clsVars, sumVars, predVars>>

\* the predictions button, shown with data, a key and no predictions yet; the
\* slider at any of its values
PressPredictions ==
  /\ session_state.processed_data # None
  /\ session_state.api_key # ""
  /\ session_state.predictions = None
  /\ \E n \in 1..MaxMonthsAhead, now \in NowPool :
       session_state' = PredictionsButton(ChartsTab(session_state), n, now)
  /\ UNCHANGED <<detectVars, normVars, clsVars, sumVars, predVars>>

NextSession ==
  Upload \/ SetApiKey \/ PressAnalyze \/ PressInsights \/ PressReport \/ PressPredictions

SpecSession == InitSession /\ [][NextSession]_vars

(***************************************************************************)
(* Claims about detect_excel_structure, under SpecDetect.                  *)
(***************************************************************************)

(***************************************************************************)
(* C1: when detect_excel_structure returns, every key of the mapping is    *)
(* one of the five canonical fields, every value is one of the input       *)
(* headers, and no header is the value of two different fields.            *)
(***************************************************************************)
C1_MappingWellFormed ==
  detect_pc = "done" =>
    /\ DOMAIN column_mapping \subseteq Fields
    /\ \A f \in DOMAIN column_mapping : column_mapping[f] \in Range(columns)
    /\ \A f, g \in DOMAIN column_mapping :
         f # g => column_mapping[f] # column_mapping[g]

\* a header that matches the Date and the Income names took Date, and a later
\* header took Income
C1_Witness ==
  /\ detect_pc = "done"
  /\ {"Date", "Income"} \subseteq DOMAIN column_mapping
  /\ AnyKeywordIn(income_columns, Lower(column_mapping["Date"]))
  /\ column_mapping["Income"] # column_mapping["Date"]


\* the fields in their priority order, each with its keyword list
FieldOrder ==
  << [field |-> "Date", keywords |-> date_columns],
     [field |-> "Description", keywords |-> description_columns],
     [field |-> "Category", keywords |-> category_columns],
     [field |-> "Income", keywords |-> income_columns],
     [field |-> "Expenses", keywords |-> expense_columns] >>

\* the places in FieldOrder of the fields that a header may still take: a
\* keyword of the field occurs in the lower-cased header, the field is free
Candidates(mapping, col) ==
  { n \in DOMAIN FieldOrder :
      /\ FieldOrder[n].field \notin DOMAIN mapping
      /\ \E k \in DOMAIN FieldOrder[n].keywords :
           Contains(Lower(col), Lower(FieldOrder[n].keywords[k])) }

(***************************************************************************)
(* C17: every step of the scan takes the next header in file order and     *)
(* gives it to the first field, in the order Date, Description, Category,  *)
(* Income, Expenses, that has a keyword occurring in the lower-cased       *)
(* header and is still unassigned; the fields assigned before keep their   *)
(* headers, and a header that no unassigned field matches leaves the       *)
(* mapping as it is.  With no match at all the mapping returned is empty.  *)
(***************************************************************************)
C17_FirstFreeFieldWins ==
  /\ [][ col_idx' = col_idx + 1 =>
           LET col == columns[col_idx]
               cands == Candidates(column_mapping, col)
           IN  /\ \A f \in DOMAIN column_mapping :
                    f \in DOMAIN column_mapping' /\ column_mapping'[f] = column_mapping[f]
               /\ cands = {} => column_mapping' = column_mapping
               /\ cands # {} =>
                    LET first == CHOOSE n \in cands : \A k \in cands : n <= k
                    IN  /\ DOMAIN column_mapping' =
                             DOMAIN column_mapping \cup {FieldOrder[first].field}
                        /\ column_mapping'[FieldOrder[first].field] = col ]_vars
  /\ [](detect_pc = "done"
          /\ (\A i \in DOMAIN columns : Candidates(EmptyMapping, columns[i]) = {})
        => column_mapping = EmptyMapping)

\* "Date", "Income Date", "Income": the second header matches Date, which is
\* taken, and falls through to Income; the third matches Income alone, which
\* is taken by then, and is left out
C17_Witness ==
  /\ detect_pc = "done"
  /\ columns = << <<"D","a","t","e">>,
                  <<"I","n","c","o","m","e"," ","D","a","t","e">>,
                  <<"I","n","c","o","m","e">> >>
  /\ DOMAIN column_mapping = {"Date", "Income"}
  /\ column_mapping["Date"] = columns[1]
  /\ column_mapping["Income"] = columns[2]

(***************************************************************************)
(* Claims about analyze_excel_data, under SpecNormalize.                   *)
(***************************************************************************)
Analyzed == norm_pc \in {"analyzed", "reanalyzed", "repeated"}

\* the cell of the raw frame that a record of processed_data came from
SourceCell(r, col) == CellAt(df, col, r.index)

\* the date cell of a raw row parses
DateParses(raw) == NotNa(to_datetime(raw.cells["Date"]))

(***************************************************************************)
(* C2: every record of processed_data has Income >= 0, also when the       *)
(* source Income cell holds a negative number.                             *)
(***************************************************************************)
C2_IncomeNonNegative ==
  Analyzed => \A i \in DOMAIN processed_data : processed_data[i].Income >= 0

C4_NetIsIncomeMinusExpenses ==
  Analyzed =>
    \A i \in DOMAIN processed_data :
      processed_data[i].Net = processed_data[i].Income - processed_data[i].Expenses

\* a record with income and expenses, the expenses from a negative source value
C4_Witness ==
  /\ Analyzed
  /\ \E i \in DOMAIN processed_data :
       /\ processed_data[i].Income # 0
       /\ processed_data[i].Expenses = 300
       /\ SourceCell(processed_data[i], "Expenses") = Num(0 - 300)
       /\ processed_data[i].Net = processed_data[i].Income - 300

(***************************************************************************)
(* C5: no record of processed_data has the category "" or "nan"; with a    *)
(* Category mapping, a source value that is empty, "nan" or missing is     *)
(* replaced by the Uncategorized label; without one the classifier's label *)
(* is kept.                                                                *)
(***************************************************************************)
C5_CategoryNeverEmpty ==
  Analyzed =>
    \A i \in DOMAIN processed_data :
      LET r == processed_data[i]
          src == SourceCell(r, "Category")
      IN  /\ r.Category \notin {"", "nan"}
          /\ IsMapped(mapping_in, "Category") /\ src \in {NaN, Text(""), Text("nan")}
               => r.Category = Uncategorized
          /\ IsMapped(mapping_in, "Category") /\ src \notin {NaN, Text(""), Text("nan")}
               => r.Category = src.s

\* the three kinds of empty source category, each replaced
C5_Witness ==
  /\ Analyzed
  /\ IsMapped(mapping_in, "Category")
  /\ \E i, j \in DOMAIN processed_data :
       /\ SourceCell(processed_data[i], "Category") = NaN
       /\ SourceCell(processed_data[j], "Category") = Text("nan")
       /\ processed_data[i].Category = Uncategorized
       /\ processed_data[j].Category = Uncategorized

(***************************************************************************)
(* C6: with a Date mapping, processed_data holds exactly the rows of the   *)
(* raw frame whose date parses, in their order, each with its parsed date: *)
(* a row with an unparsable date is dropped, none is given a default date. *)
(***************************************************************************)
C6_UnparsableDatesDropped ==
  Analyzed /\ IsMapped(mapping_in, "Date") =>
    LET kept == SelectSeq(df, DateParses)
    IN  /\ Len(processed_data) = Len(kept)
        /\ \A i \in DOMAIN processed_data :
             /\ processed_data[i].index = kept[i].index
             /\ processed_data[i].Date = to_datetime(kept[i].cells["Date"])
             /\ NotNa(processed_data[i].Date)

\* of two rows, the first had the text "not-a-date" and only the second is left
C6_Witness ==
  /\ Analyzed
  /\ IsMapped(mapping_in, "Date")
  /\ Len(df) = 2
  /\ df[1].cells["Date"].tag = "text"
  /\ ~DateParses(df[1])
  /\ Len(processed_data) = 1
  /\ processed_data[1].index = 1

(***************************************************************************)
(* C7: analyze_excel_data applied to its own output, every field mapped to *)
(* the column of its name, returns the same records: none dropped, no      *)
(* value changed.                                                          *)
(***************************************************************************)
C7_Idempotent == norm_pc = "reanalyzed" => reprocessed = processed_data

\* a second pass over two records that the first pass had changed: a negative
\* expense made positive, a missing category replaced
C7_Witness ==
  /\ norm_pc = "reanalyzed"
  /\ Len(reprocessed) = 2
  /\ mapping_in = IdentityMapping
  /\ \E i \in DOMAIN processed_data :
       /\ SourceCell(processed_data[i], "Expenses") = Num(0 - 300)
       /\ SourceCell(processed_data[i], "Category") = Text("nan")
       /\ reprocessed[i].Expenses = 300
       /\ reprocessed[i].Category = Uncategorized

(***************************************************************************)
(* C12: two calls of analyze_excel_data with the same frame and the same   *)
(* mapping return the same frame, whenever the second call is made; this   *)
(* includes a mapping without Date, for which the dates are synthesized.   *)
(* (The other stages are operators of their arguments alone, except the    *)
(* fallback of generate_financial_predictions, which reads the clock too.) *)
(***************************************************************************)
C12_Deterministic ==
  norm_pc = "repeated" => processed_again = processed_data

\* the cell is a number, or a text that reads as one
IsNumericCell(x) == to_numeric(x).tag = "num"

PositionText == << <<"1">>, <<"2">>, <<"3">>, <<"4">>, <<"5">>, <<"6">>, <<"7">>, <<"8">>, <<"9">> >>

\* the position in the raw frame of the row a record came from
RawPosition(r) == CHOOSE j \in DOMAIN df : df[j].index = r.index

(***************************************************************************)
(* C25: without a Description mapping the description of a record is the   *)
(* text "<Transaction> #k", k being the 1-based position of its row in the *)
(* raw frame; the records keep the order of their rows, and a row that     *)
(* survives keeps the number of its position when rows before it are       *)
(* dropped for their dates.                                                *)
(***************************************************************************)
C25_SynthesizedDescription ==
  Analyzed /\ ~IsMapped(mapping_in, "Description") =>
    /\ \A i \in DOMAIN processed_data :
         processed_data[i].Description =
           Text(TransactionPrefix \o PositionText[RawPosition(processed_data[i])])
    /\ \A i, j \in DOMAIN processed_data :
         i < j => RawPosition(processed_data[i]) < RawPosition(processed_data[j])

\* of two rows the first is dropped for its date, and the survivor is numbered 2
C25_Witness ==
  /\ Analyzed
  /\ ~IsMapped(mapping_in, "Description")
  /\ IsMapped(mapping_in, "Date")
  /\ Len(df) = 2
  /\ ~DateParses(df[1])
  /\ Len(processed_data) = 1
  /\ processed_data[1].Description = Text(TransactionPrefix \o <<"2">>)

(***************************************************************************)
(* Claims about classify_transactions, under SpecClassify.                 *)
(***************************************************************************)
\* every label the function can return
Labels ==
  { category_keywords[n].category : n \in DOMAIN category_keywords }
    \cup {OtherIncome, OtherExpenses, Uncategorized}

(***************************************************************************)
(* C8: classify_transactions returns a label for every row, whichever of   *)
(* its keys are present: one of the eleven categories or of the three      *)
(* defaults, never the empty string.                                       *)
(***************************************************************************)
C8_ClassifyTotal == cls_pc = "done" => label \in Labels /\ label # ""

\* a row without any key, and so without income, expenses or description
C8_Witness ==
  /\ cls_pc = "done"
  /\ DOMAIN cls_row = {}
  /\ label = Uncategorized

\* row[key] > 0 for a key that may be absent
Positive(row, key) == key \in DOMAIN row /\ row[key] > 0

\* the description of the row is present, not null and not empty
Described(row) ==
  /\ "Description" \in DOMAIN row
  /\ row["Description"].tag = "text"
  /\ Len(row["Description"].s) > 0

\* the places of the income group and of the expense group in the table
IncomeGroup == 1..4
ExpenseGroup == 5..11

\* a keyword of the category at place n occurs in the lower-cased description
KeywordMatch(row, n) ==
  \E k \in DOMAIN category_keywords[n].keywords :
    Contains(Lower(row["Description"].s), category_keywords[n].keywords[k])

\* the category at place n passes the side filter
SideFilter(row, n) ==
  \/ n \in IncomeGroup /\ Positive(row, "Income")
  \/ n \in ExpenseGroup /\ Positive(row, "Expenses")

\* the places of the categories that pass the keyword match and the filter
Passing(row) ==
  IF Described(row)
  THEN { n \in DOMAIN category_keywords : KeywordMatch(row, n) /\ SideFilter(row, n) }
  ELSE {}

(***************************************************************************)
(* C18: the table lists the four income categories and then the seven      *)
(* expense categories; for a row with a non-empty description the label    *)
(* is the first category of the table that has a keyword occurring in the  *)
(* lower-cased description and passes the side filter (an income category  *)
(* only with income > 0, an expense category only with expenses > 0): a    *)
(* category that matches by keyword and fails the filter is passed over.   *)
(***************************************************************************)
C18_FirstPassingCategory ==
  /\ [ n \in IncomeGroup |-> category_keywords[n].category ]
       = << "Salaries", "Donations", "Investments", "Sales" >>
  /\ { category_keywords[n].category : n \in ExpenseGroup }
       = { "Operating Expenses", "Administrative Expenses", "Marketing Expenses",
           "Personnel Expenses", "Financial Expenses", "Purchases", "Travel" }
  /\ DOMAIN category_keywords = IncomeGroup \cup ExpenseGroup
  /\ cls_pc = "done" /\ Described(cls_row) /\ Passing(cls_row) # {} =>
       \E n \in Passing(cls_row) :
         /\ \A k \in Passing(cls_row) : n <= k
         /\ label = category_keywords[n].category

\* "bank investment" with expenses alone: Investments matches and is passed
\* over, Financial Expenses is returned
C18_Witness ==
  /\ cls_pc = "done"
  /\ "Description" \in DOMAIN cls_row /\ cls_row["Description"] = BankInvestment
  /\ ~Positive(cls_row, "Income")
  /\ Positive(cls_row, "Expenses")
  /\ KeywordMatch(cls_row, 3)
  /\ label = "Financial Expenses"

(***************************************************************************)
(* C19: when no category passes the keyword match and the side filter,     *)
(* also when the description is absent, null or empty, the label is Other  *)
(* Income for income > 0, else Other Expenses for expenses > 0, else       *)
(* Uncategorized.                                                          *)
(***************************************************************************)
C19_DefaultLabels ==
  cls_pc = "done" /\ Passing(cls_row) = {} =>
    label = IF Positive(cls_row, "Income") THEN OtherIncome
            ELSE IF Positive(cls_row, "Expenses") THEN OtherExpenses
            ELSE Uncategorized

\* "Salary payment" with expenses alone: the one category that matches is an
\* income category, so the default for an expense is returned
C19_Witness ==
  /\ cls_pc = "done"
  /\ "Description" \in DOMAIN cls_row /\ cls_row["Description"] = SalaryPayment
  /\ \E n \in IncomeGroup : KeywordMatch(cls_row, n)
  /\ ~Positive(cls_row, "Income")
  /\ Positive(cls_row, "Expenses")
  /\ label = OtherExpenses

(***************************************************************************)
(* C20: for a row with income > 0 and expenses > 0 the label is the first  *)
(* category of the table, of either group, with a keyword occurring in the *)
(* description (so an income category before an expense category when      *)
(* both match), and Other Income when none matches.                        *)
(***************************************************************************)
C20_BothSides ==
  cls_pc = "done" /\ Positive(cls_row, "Income") /\ Positive(cls_row, "Expenses") =>
    LET matching == IF Described(cls_row)
                    THEN { n \in DOMAIN category_keywords : KeywordMatch(cls_row, n) }
                    ELSE {}
    IN  IF matching = {} THEN label = OtherIncome
        ELSE \E n \in matching :
               /\ \A k \in matching : n <= k
               /\ label = category_keywords[n].category

\* "Office rent" with income 5000 and expenses 1200: an expense category is
\* returned for a row that has income as well
C20_Witness ==
  /\ cls_pc = "done"
  /\ "Description" \in DOMAIN cls_row /\ cls_row["Description"] = OfficeRent
  /\ Positive(cls_row, "Income")
  /\ Positive(cls_row, "Expenses")
  /\ label = "Administrative Expenses"

(***************************************************************************)
(* C27: the label agrees with the side of the row.  A row with income > 0  *)
(* and no positive expenses gets an income category or Other Income, also  *)
(* when its description holds expense keywords only; a row with expenses   *)
(* > 0 and no positive income gets an expense category or Other Expenses;  *)
(* a row with neither amount positive gets Uncategorized, whatever its     *)
(* description.                                                            *)
(***************************************************************************)
C27_LabelAgreesWithSide ==
  cls_pc = "done" =>
    LET income_labels == { category_keywords[n].category : n \in IncomeGroup }
        expense_labels == { category_keywords[n].category : n \in ExpenseGroup }
    IN  /\ Positive(cls_row, "Income") /\ ~Positive(cls_row, "Expenses") =>
             label \in income_labels \cup {OtherIncome}
        /\ Positive(cls_row, "Expenses") /\ ~Positive(cls_row, "Income") =>
             label \in expense_labels \cup {OtherExpenses}
        /\ ~Positive(cls_row, "Income") /\ ~Positive(cls_row, "Expenses") =>
             label = Uncategorized

\* "Office rent" with income 5000 and expenses 0: the description matches an
\* expense category alone, and the label is Other Income
C27_Witness ==
  /\ cls_pc = "done"
  /\ DOMAIN cls_row = {"Description", "Income", "Expenses"}
  /\ cls_row["Description"] = OfficeRent
  /\ cls_row["Income"] = 5000 /\ cls_row["Expenses"] = 0
  /\ \A n \in IncomeGroup : ~KeywordMatch(cls_row, n)
  /\ \E n \in ExpenseGroup : KeywordMatch(cls_row, n)
  /\ label = OtherIncome

(***************************************************************************)
(* Claims about generate_ai_insights, under SpecSummarize.                 *)
(***************************************************************************)

(***************************************************************************)
(* C9: generate_ai_insights called with no data (None, or a frame without  *)
(* rows) returns the fixed result: an empty category analysis, exactly one *)
(* insight, exactly one recommendation and the summary that says the data  *)
(* is insufficient.                                                        *)
(***************************************************************************)
C9_EmptyDataInsights ==
  sum_pc = "done" /\ (sum_data.is_none \/ Len(sum_data.rows) = 0) =>
    /\ analysis_results.category_analysis = EmptyMapping
    /\ Len(analysis_results.insights) = 1
    /\ Len(analysis_results.recommendations) = 1
    /\ analysis_results.summary = [kind |-> "insufficient_data"]

\* a frame all of whose rows were dropped
C9_Witness ==
  /\ sum_pc = "done"
  /\ ~sum_data.is_none
  /\ sum_data.rows = <<>>
  /\ analysis_results = EmptyDataInsights

\* the sum of a field over the records numbered 1..n
RECURSIVE SumOfFirst(_, _, _)
SumOfFirst(rows, field, n) ==
  IF n = 0 THEN 0 ELSE SumOfFirst(rows, field, n - 1) + rows[n][field]

(***************************************************************************)
(* C11: for a non-empty record set, the summary of generate_ai_insights    *)
(* carries total_income = the sum of the records' Income, total_expenses = *)
(* the sum of their Expenses, and the net of the two: the amount           *)
(* total_income - total_expenses of a positive cash flow when that is      *)
(* >= 0, else its absolute value as the amount of a negative cash flow.    *)
(***************************************************************************)
C11_TotalsAreSums ==
  sum_pc = "done" /\ ~sum_data.is_none /\ Len(sum_data.rows) > 0 =>
    LET rows == sum_data.rows
        ti == SumOfFirst(rows, "Income", Len(rows))
        te == SumOfFirst(rows, "Expenses", Len(rows))
        s == analysis_results.summary
    IN  /\ s.total_income = ti
        /\ s.total_expenses = te
        /\ \/ s.kind = "income_exceeds_expenses" /\ ti - te >= 0 /\ s.amount = ti - te
           \/ s.kind = "expenses_exceed_income" /\ ti - te < 0 /\ s.amount = te - ti

\* the salary of 5000 and the office rent of 1200: 5000, 1200 and 3800
C11_Witness ==
  /\ sum_pc = "done"
  /\ ~sum_data.is_none
  /\ Len(sum_data.rows) = 2
  /\ sum_data.rows[1].Income = 5000 /\ sum_data.rows[1].Expenses = 0
  /\ sum_data.rows[2].Income = 0 /\ sum_data.rows[2].Expenses = 1200
  /\ analysis_results.summary =
       [ kind |-> "income_exceeds_expenses", total_income |-> 5000,
         total_expenses |-> 1200, amount |-> 3800 ]

\* the sum of a field over those of the records 1..n that carry the label c
RECURSIVE SumOfLabel(_, _, _, _)
SumOfLabel(rows, field, c, n) ==
  IF n = 0 THEN 0
  ELSE SumOfLabel(rows, field, c, n - 1)
         + (IF rows[n].Category = c THEN rows[n][field] ELSE 0)

(***************************************************************************)
(* C21: for a non-empty record set, category_analysis has exactly one      *)
(* entry per category label that occurs in the records; the income and the *)
(* expenses of an entry are the sums of Income and of Expenses over the    *)
(* records with that label, and its net is that income minus that          *)
(* expenses.                                                               *)
(***************************************************************************)
C21_CategoryAggregates ==
  sum_pc = "done" /\ ~sum_data.is_none /\ Len(sum_data.rows) > 0 =>
    LET rows == sum_data.rows
        ca == analysis_results.category_analysis
    IN  /\ DOMAIN ca = { rows[i].Category : i \in DOMAIN rows }
        /\ \A c \in DOMAIN ca :
             /\ ca[c].income = SumOfLabel(rows, "Income", c, Len(rows))
             /\ ca[c].expenses = SumOfLabel(rows, "Expenses", c, Len(rows))
             /\ ca[c].net = ca[c].income - ca[c].expenses

\* two records that share a label are summed into one entry
C21_Witness ==
  /\ sum_pc = "done"
  /\ ~sum_data.is_none
  /\ Len(sum_data.rows) = 2
  /\ sum_data.rows[1].Category = Uncategorized
  /\ sum_data.rows[2].Category = Uncategorized
  /\ sum_data.rows[1].Expenses = 1200
  /\ sum_data.rows[2].Expenses = 300
  /\ DOMAIN analysis_results.category_analysis = {Uncategorized}
  /\ analysis_results.category_analysis[Uncategorized] =
       [expenses |-> 1500, income |-> 0 - 50, net |-> 0 - 1550]

(***************************************************************************)
(* C22: for a non-empty record set the narrative follows the sign of the   *)
(* net alone.  With net >= 0, zero included, the summary says that income  *)
(* exceeds expenses by net, the first insight is the positive one and the  *)
(* recommendations are the two messages to keep the balance and to invest  *)
(* the surplus; with net < 0 the summary says that expenses exceed income  *)
(* by |net|, the first insight is the cautioning one and the               *)
(* recommendations are the two messages to cut expenses and to find new    *)
(* revenue.                                                                *)
(***************************************************************************)
C22_NarrativeBySign ==
  sum_pc = "done" /\ ~sum_data.is_none /\ Len(sum_data.rows) > 0 =>
    LET rows == sum_data.rows
        net == SumOfFirst(rows, "Income", Len(rows)) - SumOfFirst(rows, "Expenses", Len(rows))
        r == analysis_results
    IN  IF net >= 0
        THEN /\ r.summary.kind = "income_exceeds_expenses" /\ r.summary.amount = net
             /\ r.insights[1] = [kind |-> "positive_cash_flow"]
             /\ r.recommendations = << [kind |-> "keep_balance"], [kind |-> "invest_surplus"] >>
        ELSE /\ r.summary.kind = "expenses_exceed_income" /\ r.summary.amount = 0 - net
             /\ r.insights[1] = [kind |-> "negative_cash_flow"]
             /\ r.recommendations = << [kind |-> "cut_expenses"], [kind |-> "find_new_revenue"] >>

\* a record set with income and expenses both 0: net = 0 takes the positive
\* narrative
C22_Witness ==
  /\ sum_pc = "done"
  /\ ~sum_data.is_none
  /\ Len(sum_data.rows) > 0
  /\ \A i \in DOMAIN sum_data.rows :
       sum_data.rows[i].Income = 0 /\ sum_data.rows[i].Expenses = 0
  /\ analysis_results.summary.kind = "income_exceeds_expenses"
  /\ analysis_results.summary.amount = 0
  /\ analysis_results.recommendations[2] = [kind |-> "invest_surplus"]

\* the labels of the records whose total of the field is positive: the expense
\* categories, or the income categories, of the record set
CategoriesWith(rows, field) ==
  { c \in { rows[i].Category : i \in DOMAIN rows } :
      SumOfLabel(rows, field, c, Len(rows)) > 0 }

\* the insight names a label whose total of the field is the largest, with
\* that total
NamesTop(insight, rows, field) ==
  /\ insight.category \in { rows[i].Category : i \in DOMAIN rows }
  /\ insight.value = SumOfLabel(rows, field, insight.category, Len(rows))
  /\ \A i \in DOMAIN rows :
       SumOfLabel(rows, field, rows[i].Category, Len(rows)) <= insight.value

(***************************************************************************)
(* C23: for a non-empty record set the insights are the net-sign insight,  *)
(* then the insight that names the category with the largest total         *)
(* expenses and its value, then the insight that names the category with   *)
(* the largest total income and its value; the expense insight is left out *)
(* when the records have no expense category, the income insight when they *)
(* have no income category.                                                *)
(***************************************************************************)
C23_TopCategoryInsights ==
  sum_pc = "done" /\ ~sum_data.is_none /\ Len(sum_data.rows) > 0 =>
    LET rows == sum_data.rows
        rest == Tail(analysis_results.insights)
        of_expense == SelectSeq(rest, LAMBDA x : x.kind = "top_expense_category")
        of_income == SelectSeq(rest, LAMBDA x : x.kind = "top_income_category")
    IN  /\ rest = of_expense \o of_income
        /\ Len(of_expense) = IF CategoriesWith(rows, "Expenses") = {} THEN 0 ELSE 1
        /\ Len(of_income) = IF CategoriesWith(rows, "Income") = {} THEN 0 ELSE 1
        /\ \A n \in DOMAIN of_expense : NamesTop(of_expense[n], rows, "Expenses")
        /\ \A n \in DOMAIN of_income : NamesTop(of_income[n], rows, "Income")

(***************************************************************************)
(* C26: the result of generate_ai_insights for a non-empty record set      *)
(* holds the monthly aggregates: one entry per calendar month of the       *)
(* records with the total income and the total expenses of that month (as  *)
(* a mapping keyed by the month, its keys read in ascending order).        *)
(***************************************************************************)
C26_MonthlyAggregates ==
  sum_pc = "done" /\ ~sum_data.is_none /\ Len(sum_data.rows) > 0 =>
    LET rows == sum_data.rows
        months == { MonthIndex(rows[i].Date) : i \in DOMAIN rows }
        of_month(n) == SelectSeq(rows, LAMBDA r : MonthIndex(r.Date) = n)
    IN  /\ DOMAIN analysis_results.trends = months
        /\ \A n \in months :
             /\ analysis_results.trends[n].income =
                  SumOfFirst(of_month(n), "Income", Len(of_month(n)))
             /\ analysis_results.trends[n].expenses =
                  SumOfFirst(of_month(n), "Expenses", Len(of_month(n)))

(***************************************************************************)
(* Claims about generate_financial_predictions, under SpecPredict.         *)
(***************************************************************************)
\* the code point of a character of a month label
CharCode(c) == IF c = "-" THEN 45 ELSE 48 + DigitValue[c]

RECURSIVE TextLess(_, _)
\* a < b for two texts, as Python compares strings
TextLess(a, b) ==
  IF Len(b) = 0 THEN FALSE
  ELSE IF Len(a) = 0 THEN TRUE
  ELSE IF a[1] # b[1] THEN CharCode(a[1]) < CharCode(b[1])
  ELSE TextLess(Tail(a), Tail(b))

\* the label of the calendar month numbered n
LabelOfMonth(n) == ZeroPadded(n \div 12, 4) \o <<"-">> \o ZeroPadded((n % 12) + 1, 2)

LatestMonth(rows) ==
  CHOOSE n \in { MonthIndex(rows[i].Date) : i \in UsableDates(rows) } :
    \A i \in UsableDates(rows) : MonthIndex(rows[i].Date) <= n

MonthTotal(rows, field, n) ==
  LET of_month == SelectSeq(rows, LAMBDA r : NotNa(r.Date) /\ MonthIndex(r.Date) = n)
  IN  SumOfFirst(of_month, field, Len(of_month))

\* the sum of the monthly totals of the months lo..hi
RECURSIVE SumOfMonths(_, _, _, _)
SumOfMonths(rows, field, lo, hi) ==
  IF hi < lo THEN 0
  ELSE SumOfMonths(rows, field, lo, hi - 1) + MonthTotal(rows, field, hi)

\* the earliest month of the records
EarliestMonth(rows) ==
  CHOOSE n \in { MonthIndex(rows[i].Date) : i \in UsableDates(rows) } :
    \A i \in UsableDates(rows) : n <= MonthIndex(rows[i].Date)

(***************************************************************************)
(* C24: for a frame with dated records, avg_income and avg_expenses are    *)
(* the arithmetic means of the monthly totals, and for each i in           *)
(* 1..months_ahead predicted_income = avg_income * (1 + i * 0.01) and      *)
(* predicted_expenses = avg_expenses * (1 + i * 0.005): linear in i, not   *)
(* compounding (entry i is not 1.01 times entry i-1).                      *)
(***************************************************************************)
C24_LinearGrowth ==
  pred_pc = "done" /\ ~pred_data.is_none /\ UsableDates(pred_data.rows) # {} =>
    LET mp == predictions.monthly_predictions
        rows == pred_data.rows
        lo == EarliestMonth(rows)
        hi == LatestMonth(rows)
    IN  /\ avg_income = Frac(SumOfMonths(rows, "Income", lo, hi), Cardinality(lo..hi))
        /\ avg_expenses = Frac(SumOfMonths(rows, "Expenses", lo, hi), Cardinality(lo..hi))
        /\ DOMAIN mp = 1..months_ahead
        /\ \A i \in DOMAIN mp :
             /\ mp[i].predicted_income = FracMul(avg_income, Frac(100 + i, 100))
             /\ mp[i].predicted_expenses = FracMul(avg_expenses, Frac(1000 + 5 * i, 1000))
             /\ i > 1 /\ avg_income.num # 0 =>
                  mp[i].predicted_income # FracMul(mp[i - 1].predicted_income, Frac(101, 100))

\* a salary of 5000 and a rent of 1200 in one month: the second prediction is
\* 5100 and 1212, where compounding would give 5100.5
C24_Witness ==
  /\ pred_pc = "done"
  /\ ~pred_data.is_none
  /\ months_ahead >= 2
  /\ avg_income = Frac(5000, 1)
  /\ avg_expenses = Frac(1200, 1)
  /\ Len(predictions.monthly_predictions) >= 2
  /\ predictions.monthly_predictions[2].predicted_income = Frac(5100, 1)
  /\ predictions.monthly_predictions[2].predicted_expenses = Frac(1212, 1)

(***************************************************************************)
(* C28: the averages are taken over every calendar month from the earliest *)
(* to the latest month of the records: a month of that span without a      *)
(* record counts with the total 0, so avg_income is the total income       *)
(* divided by the number of months of the span (and avg_expenses the total *)
(* expenses), not by the number of months that hold records.               *)
(***************************************************************************)
C28_AveragesOverSpan ==
  pred_pc \in {"loop", "done"} /\ ~pred_data.is_none /\ UsableDates(pred_data.rows) # {} =>
    LET rows == pred_data.rows
        dated == SelectSeq(rows, LAMBDA r : NotNa(r.Date))
        span == LatestMonth(rows) - EarliestMonth(rows) + 1
    IN  /\ avg_income = Frac(SumOfFirst(dated, "Income", Len(dated)), span)
        /\ avg_expenses = Frac(SumOfFirst(dated, "Expenses", Len(dated)), span)

\* records in January and in March 2024 alone: the income of 4950 is divided
\* by 3, not by 2
C28_Witness ==
  /\ pred_pc = "done"
  /\ ~pred_data.is_none
  /\ Len(pred_data.rows) = 2
  /\ pred_data.rows[1].Date = Timestamp(2024, 1, 15)
  /\ pred_data.rows[2].Date = Timestamp(2024, 3, 31)
  /\ pred_data.rows[1].Income + pred_data.rows[2].Income = 4950
  /\ avg_income = Frac(1650, 1)

(***************************************************************************)
(* C14: when the record set is None or empty, or none of its records has a *)
(* usable date, generate_financial_predictions returns no monthly          *)
(* prediction and the summary that says the data is insufficient for a     *)
(* prediction.                                                             *)
(***************************************************************************)
C14_NoDataExplained ==
  pred_pc = "done" /\ (NoHistory(pred_data) \/ UsableDates(pred_data.rows) = {}) =>
    /\ predictions.monthly_predictions = <<>>
    /\ predictions.summary = [kind |-> "insufficient_data"]

(***************************************************************************)
(* C15: when a step of the prediction raises (the monthly grouping, or the *)
(* month arithmetic of any iteration i of the loop), the function returns  *)
(* exactly months_ahead entries, every one with predicted_income =         *)
(* predicted_expenses = predicted_net = 0.                                 *)
(***************************************************************************)
C15_FallbackAllZero ==
  LET rows == pred_data.rows
      raised ==
        /\ ~NoHistory(pred_data)
        /\ UsableDates(rows) # {}
        /\ \/ BucketingRaises(rows)
           \/ \E i \in 1..months_ahead : AddMonthsRaises(LastBucket(rows), i)
  IN  pred_pc = "done" /\ raised =>
        LET mp == predictions.monthly_predictions
        IN  /\ Len(mp) = months_ahead
            /\ \A i \in DOMAIN mp :
                 /\ mp[i].predicted_income = Frac(0, 1)
                 /\ mp[i].predicted_expenses = Frac(0, 1)
                 /\ mp[i].predicted_net = Frac(0, 1)

(***************************************************************************)
(* C16: no step of a core operation changes what its caller passed in: the *)
(* headers, the raw frame and the mapping, the row handed to the           *)
(* classifier, and the record sets handed to generate_ai_insights and to   *)
(* generate_financial_predictions keep their values and types.             *)
(***************************************************************************)
C16_InputsUnchanged ==
  [][ /\ columns' = columns
      /\ df' = df
      /\ mapping_in' = mapping_in
      /\ cls_row' = cls_row
      /\ sum_data' = sum_data
      /\ pred_data' = pred_data ]_vars

(***************************************************************************)
(* C29: in the dashboard session a non-null analysis_results and a         *)
(* non-null predictions were computed from the processed_data now stored:  *)
(* analysis_results is what generate_ai_insights gives for it, predictions *)
(* is what generate_financial_predictions gives for it for some number of  *)
(* months, neither is present while processed_data is null, and a step     *)
(* that replaces processed_data leaves both null.                          *)
(***************************************************************************)
ResultsFromStoredData ==
  LET ss == session_state
  IN  /\ ss.analysis_results # None =>
           /\ ss.processed_data # None
           /\ ss.analysis_results = generate_ai_insights(ss.processed_data)
      /\ ss.predictions # None =>
           /\ ss.processed_data # None
           /\ \E n \in 1..MaxMonthsAhead, now \in NowPool :
                ss.predictions = generate_financial_predictions(ss.processed_data, n, now)

C29_ResultsMatchProcessedData ==
  /\ []ResultsFromStoredData
  /\ [][session_state'.processed_data # session_state.processed_data =>
           /\ session_state'.analysis_results = None
           /\ session_state'.predictions = None]_vars

\* both results are stored, for a frame of two records, while another sheet
\* has been uploaded since
C29_Witness ==
  /\ session_state.analysis_results # None
  /\ session_state.predictions # None
  /\ session_state.processed_data # None
  /\ Len(session_state.processed_data.rows) = 2
  /\ Len(session_state.predictions.monthly_predictions) = MaxMonthsAhead
  /\ session_state.data # None
  /\ Len(session_state.data.rows) = 1

====
